---- MODULE Spec2Model ----
(***************************************************************************)
(* A model of tick-knock's entity / linked component / query / engine      *)
(* core.  Every method of the library is an operator that maps a world     *)
(* record (all objects' fields) to the world after the call; the actions   *)
(* are the calls host code makes.                                          *)
(***************************************************************************)
EXTENDS Integers, Sequences, FiniteSets, TLC

VARIABLES
    componentIds,      \* ComponentId.ts: the __componentClassId__ memo of every class (0: none)
    componentClassId,  \* ComponentId.ts: the next id to hand out
    next,              \* LinkedComponent.next of every linked instance
    entities,          \* every Entity object: _components, _linkedComponents, _tags, signals
    engine,            \* the Engine: _entities, _entityMap, _queries, _systems, its two signals
    systems,           \* every System object: _priority, _engine, IterativeSystem._removed
    fieldY,            \* the field y of every instance of the plain class A
    queries,           \* every Query: _entities, _snapshot.current, its two signals
    builders,          \* every QueryBuilder: _components, _tags
    snapshots,         \* EntitySnapshot._current of every snapshot, keyed by its _previous entity
    log,               \* what the host's listeners on entity signals received in the last call
    seen,              \* what the host's listeners read from snapshots in the last call
    lastOp,            \* the last call of the host, its arguments, its outcome and return value
    pre                \* entities and next as they were when the last call began

vars == <<componentIds, componentClassId, next, entities, engine, systems, fieldY, queries,
          builders, snapshots, log, seen, lastOp, pre>>

----------------------------------------------------------------------------
(* Bounds of the model *)

NumEntities == 2      \* entities host code creates
NumPlain == 2         \* instances of the plain class A
NumLinked == 2        \* instances of the linked class L
NumSystems == 2       \* plain systems host code creates
MaxSystems == 3       \* addSystem calls the host makes before it removes a system
MaxQueries == 3       \* addQuery calls the host makes before it removes a query
NumListeners == 3     \* listeners the host connects to the signal of the signal tests

(* Program constants *)

FirstComponentId == 1   \* let componentClassId: number = 1
PriorityLast == 1000    \* Number.POSITIVE_INFINITY as a handler priority
PriorityFirst == -1000  \* Number.NEGATIVE_INFINITY as a handler priority

----------------------------------------------------------------------------
(* The classes host code declares (as the tests do): A and its subclass    *)
(* SubA are plain component classes, L and its subclass SubL extend        *)
(* LinkedComponent.  A class token is <<name, 0>>, an instance <<name, n>>, *)
(* a tag <<"tag", n>>, undefined <<"none", 0>>.                            *)

Classes == {"A", "SubA", "L", "SubL"}
LinkedClasses == {"L", "SubL"}
NoClass == "none"
None == <<"none", 0>>
NoList == <<"nolist", 0>>
NoEntity == <<"none", 0>>

Parent(c) == CASE c = "SubA" -> "A" [] c = "SubL" -> "L" [] OTHER -> NoClass

Ancestors(c) == {c} \cup (IF Parent(c) = NoClass THEN {} ELSE {Parent(c)})

ClassOf(x) == x[1]
ClassToken(c) == <<c, 0>>

PlainInstances == {<<"A", n>> : n \in 1..NumPlain} \cup {<<"SubA", 1>>}
LinkedInstances == {<<"L", n>> : n \in 1..NumLinked} \cup {<<"SubL", 1>>}
Instances == PlainInstances \cup LinkedInstances
TagT == <<"tag", 1>>
Tags == {TagT}

EntityRefs == {<<"entity", n>> : n \in 1..NumEntities}
PlainSystems == {<<"system", n>> : n \in 1..NumSystems}
IterativeSystem1 == <<"iterative", 1>>
SystemRefs == PlainSystems \cup {IterativeSystem1}
NoSystem == <<"none", 0>>
SharedConfig == <<"shared", 0>>
QueryIds == {1, 2}
BuilderIds == {1, 2}
HelperOf(q) == <<"helper", q>>
PreviousOf(q) == <<"previous", q>>
HostPrevious == <<"previous", 0>>
PreviousRefs == {PreviousOf(q) : q \in QueryIds} \cup {HostPrevious}
AllEntityRefs == EntityRefs \cup {SharedConfig} \cup {HelperOf(q) : q \in QueryIds}
                 \cup PreviousRefs

MaxId == Cardinality(Classes)
Ids == 1..MaxId
Fuel == Cardinality(LinkedInstances)

----------------------------------------------------------------------------
(* Tag.ts, LinkedComponent.ts, ComponentId.ts *)

isTag(item) == item[1] = "tag"

isLinkedComponent(component) == component # None /\ ClassOf(component) \in LinkedClasses

instanceOf(component, class) == class \in Ancestors(ClassOf(component))

\* getComponentId(component) with createIfNotExists false: 0 stands for undefined
getComponentId(w, class) == w.componentIds[class]

\* getComponentId(component, true) that leaves the counter where it is
assignComponentIdSameCounter(w, class) ==
    IF w.componentIds[class] # 0 THEN w
    ELSE [w EXCEPT !.componentIds[class] = w.componentClassId]

\* the world after getComponentId(component, true)
assignComponentId(w, class) ==
    IF w.componentIds[class] # 0 THEN w
    ELSE [w EXCEPT !.componentIds[class] = w.componentClassId,
                   !.componentClassId = w.componentClassId + 1]

\* getComponentClass that takes any resolveClass it is given
getComponentClassUnchecked(component, resolveClass) ==
    IF resolveClass # NoClass THEN resolveClass ELSE ClassOf(component)

\* getComponentClass: the class a component is registered under, "throw" when
\* resolveClass is no ancestor of the component's class
getComponentClass(component, resolveClass) ==
    IF resolveClass # NoClass
    THEN IF instanceOf(component, resolveClass) THEN resolveClass ELSE "throw"
    ELSE ClassOf(component)

Throw(w) == [w EXCEPT !.fault = "throw", !.ret = None]
Hang(w) == [w EXCEPT !.fault = "hang", !.ret = None]
Return(w, value) == [w EXCEPT !.ret = value]

----------------------------------------------------------------------------
(* Signal.ts (the version with handler priorities, which Engine uses).  A  *)
(* handler is [fn, q, priority]: fn names the function, q the query it is  *)
(* bound to (0: none).                                                     *)

Handler(fn, q) == [fn |-> fn, q |-> q, priority |-> 0]

SameHandler(a, b) == a.fn = b.fn /\ a.q = b.q

IndexOfHandler(handlers, handler) ==
    IF \E i \in 1..Len(handlers) : SameHandler(handlers[i], handler)
    THEN CHOOSE i \in 1..Len(handlers) :
            /\ SameHandler(handlers[i], handler)
            /\ \A j \in 1..(i - 1) : ~SameHandler(handlers[j], handler)
    ELSE 0

\* one step of a stable sort by priority: h goes behind every handler whose
\* priority is not greater
InsertByPriority(sorted, h) ==
    LET k == Cardinality({i \in 1..Len(sorted) : sorted[i].priority <= h.priority})
        \* sorted is ordered, so the k handlers not greater than h are its first k
    IN SubSeq(sorted, 1, k) \o <<h>> \o SubSeq(sorted, k + 1, Len(sorted))

RECURSIVE SortByPriority(_)
SortByPriority(handlers) ==
    IF handlers = <<>> THEN <<>>
    ELSE InsertByPriority(SortByPriority(SubSeq(handlers, 1, Len(handlers) - 1)),
                          handlers[Len(handlers)])

Signal_hasHandlers(handlers) == Len(handlers) > 0

\* connect without the search for the handler
Signal_connectAlways(handlers, handler, priority) ==
    LET pushed == Append(handlers, [handler EXCEPT !.priority = priority])
    IN IF Len(handlers) > 0 /\ handlers[Len(handlers)].priority > priority
       THEN SortByPriority(pushed) ELSE pushed

Signal_connect(handlers, handler, priority) ==
    LET i == IndexOfHandler(handlers, handler)
        pushed == Append(handlers, [handler EXCEPT !.priority = priority])
        needResort ==
            IF i # 0 THEN handlers[i].priority # priority
            ELSE Len(handlers) > 0 /\ handlers[Len(handlers)].priority > priority
        updated == IF i # 0 THEN [handlers EXCEPT ![i].priority = priority] ELSE pushed
    IN IF needResort THEN SortByPriority(updated) ELSE updated

Signal_disconnect(handlers, handler) ==
    LET i == IndexOfHandler(handlers, handler)
    IN IF i = 0 THEN handlers
       ELSE SubSeq(handlers, 1, i - 1) \o SubSeq(handlers, i + 1, Len(handlers))

\* A signal is addressed by its owner: an entity, a query or the engine.
EntitySignal(e, name) == [owner |-> "entity", ref |-> e, q |-> 0, name |-> name]
QuerySignal(q, name) == [owner |-> "query", ref |-> NoEntity, q |-> q, name |-> name]
EngineSignal(name) == [owner |-> "engine", ref |-> NoEntity, q |-> 0, name |-> name]

HandlersOf(w, sig) ==
    CASE sig.owner = "entity" -> w.entities[sig.ref][sig.name]
      [] sig.owner = "query" -> w.queries[sig.q][sig.name]
      [] OTHER -> w.engine[sig.name]

----------------------------------------------------------------------------
(* LinkedComponentList.ts.  A list is its _head; the links are the next    *)
(* fields of the instances.  Each walk gives up after Fuel steps: a walk   *)
(* that long is in a cycle of next links and the code never leaves it.     *)

\* the walk of add without the check for the component itself
RECURSIVE addWalkUnchecked(_, _, _, _, _)
addWalkUnchecked(nxt, prev, current, linkedComponent, fuel) ==
    IF current = None THEN [status |-> "end", prev |-> prev]
    ELSE IF fuel = 0 THEN [status |-> "hang", prev |-> prev]
    ELSE addWalkUnchecked(nxt, current, nxt[current], linkedComponent, fuel - 1)

\* the walk of add: "end" with the last node, "throw" on meeting the component
RECURSIVE addWalk(_, _, _, _, _)
addWalk(nxt, prev, current, linkedComponent, fuel) ==
    IF current = None THEN [status |-> "end", prev |-> prev]
    ELSE IF current = linkedComponent THEN [status |-> "throw", prev |-> prev]
    ELSE IF fuel = 0 THEN [status |-> "hang", prev |-> prev]
    ELSE addWalk(nxt, current, nxt[current], linkedComponent, fuel - 1)

\* what add does at the end of its walk
addLink(head, nxt, linkedComponent, walk) ==
    [status |-> walk.status,
     head |-> IF walk.status = "end" /\ head = None THEN linkedComponent ELSE head,
     next |-> IF walk.status = "end" /\ head # None
              THEN [nxt EXCEPT ![walk.prev] = linkedComponent] ELSE nxt]

\* LinkedComponentList.add: [status, head, next]; the added node keeps its next
LinkedComponentList_add(head, nxt, linkedComponent) ==
    addLink(head, nxt, linkedComponent, addWalk(nxt, None, head, linkedComponent, Fuel))

\* LinkedComponentList.find: "found" with prev, "missing", or "hang"
RECURSIVE findWalk(_, _, _, _, _)
findWalk(nxt, prev, current, linkedComponent, fuel) ==
    IF current = None THEN [status |-> "missing", prev |-> None]
    ELSE IF current = linkedComponent THEN [status |-> "found", prev |-> prev]
    ELSE IF fuel = 0 THEN [status |-> "hang", prev |-> None]
    ELSE findWalk(nxt, current, nxt[current], linkedComponent, fuel - 1)

\* what remove does with what find returned
removeLink(head, nxt, linkedComponent, walk) ==
    [status |-> walk.status,
     head |-> IF walk.status = "found" /\ walk.prev = None
              THEN nxt[linkedComponent] ELSE head,
     next |-> IF walk.status = "found" /\ walk.prev # None
              THEN [nxt EXCEPT ![walk.prev] = nxt[linkedComponent]] ELSE nxt]

\* LinkedComponentList.remove: [status, head, next]; the removed node keeps its next
LinkedComponentList_remove(head, nxt, linkedComponent) ==
    removeLink(head, nxt, linkedComponent, findWalk(nxt, None, head, linkedComponent, Fuel))

\* LinkedComponentList.nodes: the nodes from node on; it never ends in a cycle
RECURSIVE nodesFrom(_, _, _)
nodesFrom(nxt, node, fuel) ==
    IF node = None \/ fuel = 0 THEN <<>>
    ELSE <<node>> \o nodesFrom(nxt, nxt[node], fuel - 1)

RECURSIVE cyclicFrom(_, _, _)
cyclicFrom(nxt, node, fuel) ==
    IF node = None THEN FALSE
    ELSE IF fuel = 0 THEN TRUE
    ELSE cyclicFrom(nxt, nxt[node], fuel - 1)

LinkedComponentList_nodes(head, nxt) ==
    [nodes |-> nodesFrom(nxt, IF head = NoList THEN None ELSE head, Fuel),
     cyclic |-> cyclicFrom(nxt, IF head = NoList THEN None ELSE head, Fuel)]

----------------------------------------------------------------------------
(* Entity.ts.  An entity is addressed by its reference e in w.entities.    *)
(* _linkedComponents[id] is NoList when the entity has no list for id,     *)
(* else the list's head (None: an empty list).  copyFrom makes two         *)
(* entities hold one list object: sameList[id] is the set of the other     *)
(* entities that hold the list object this entity holds for id, and a      *)
(* change of the list's head is written to every entity that holds it.     *)

RECURSIVE Signal_emit(_, _, _)
RECURSIVE Entity_remove(_, _, _)
RECURSIVE Entity_add(_, _, _, _)
RECURSIVE Entity_append(_, _, _, _)

EmptyEntity ==
    [components |-> [i \in Ids |-> None],
     linkedComponents |-> [i \in Ids |-> NoList],
     sameList |-> [i \in Ids |-> {}],
     tags |-> {},
     onComponentAdded |-> <<>>,
     onComponentRemoved |-> <<>>,
     onInvalidationRequested |-> <<>>]

\* return value, of a call that neither threw nor hangs
ReturnFrom(w, value) == IF w.fault # "none" THEN w ELSE Return(w, value)

Entity_get(w, e, class) ==
    IF getComponentId(w, class) = 0 THEN None
    ELSE w.entities[e].components[getComponentId(w, class)]

Entity_hasComponent(w, e, class) == Entity_get(w, e, class) # None

Entity_hasTag(w, e, tag) == tag \in w.entities[e].tags

Entity_has(w, e, classOrTag) ==
    IF isTag(classOrTag) THEN Entity_hasTag(w, e, classOrTag)
    ELSE Entity_hasComponent(w, e, ClassOf(classOrTag))

dispatchOnComponentAdded(w, e, component) ==
    IF Signal_hasHandlers(w.entities[e].onComponentAdded)
    THEN Signal_emit(w, EntitySignal(e, "onComponentAdded"),
                     [entity |-> e, item |-> component])
    ELSE w

dispatchOnComponentRemoved(w, e, value) ==
    IF Signal_hasHandlers(w.entities[e].onComponentRemoved)
    THEN Signal_emit(w, EntitySignal(e, "onComponentRemoved"),
                     [entity |-> e, item |-> value])
    ELSE w

\* list._head = head, as each of the holders of the list sees it
RECURSIVE setHeads(_, _, _, _)
setHeads(all, holders, id, head) ==
    IF holders = {} THEN all
    ELSE setHeads([all EXCEPT ![CHOOSE x \in holders : TRUE].linkedComponents[id] = head],
                  holders \ {CHOOSE x \in holders : TRUE}, id, head)

\* list._head = head for the list that e holds for id
setHead(all, e, id, head) == setHeads(all, all[e].sameList[id] \cup {e}, id, head)

\* the holders of a list no longer share it with e
RECURSIVE forget(_, _, _, _)
forget(all, holders, id, e) ==
    IF holders = {} THEN all
    ELSE forget([all EXCEPT ![CHOOSE x \in holders : TRUE].sameList[id] = @ \ {e}],
                holders \ {CHOOSE x \in holders : TRUE}, id, e)

\* the holders of a list share it with e as well
RECURSIVE admit(_, _, _, _)
admit(all, holders, id, e) ==
    IF holders = {} THEN all
    ELSE admit([all EXCEPT ![CHOOSE x \in holders : TRUE].sameList[id] = @ \cup {e}],
               holders \ {CHOOSE x \in holders : TRUE}, id, e)

\* delete this._linkedComponents[id]: the others go on holding the list
deleteList(all, e, id) ==
    [forget(all, all[e].sameList[id], id, e)
        EXCEPT ![e].linkedComponents[id] = NoList, ![e].sameList[id] = {}]

\* this._linkedComponents = {}
RECURSIVE deleteListsFrom(_, _, _)
deleteListsFrom(all, e, id) ==
    IF id > MaxId THEN all
    ELSE deleteListsFrom(IF all[e].linkedComponents[id] = NoList THEN all
                         ELSE deleteList(all, e, id),
                         e, id + 1)

deleteLists(all, e) == deleteListsFrom(all, e, 1)

\* this._linkedComponents[id] = entity._linkedComponents[id], on an e without lists
assignList(all, e, entity, id) ==
    [admit(all, all[entity].sameList[id] \cup {entity}, id, e)
        EXCEPT ![e].linkedComponents[id] = all[entity].linkedComponents[id],
               ![e].sameList[id] = all[entity].sameList[id] \cup {entity}]

\* this._linkedComponents = Object.assign({}, entity._linkedComponents)
RECURSIVE assignListsFrom(_, _, _, _)
assignListsFrom(all, e, entity, id) ==
    IF id > MaxId THEN all
    ELSE assignListsFrom(IF all[entity].linkedComponents[id] = NoList THEN all
                         ELSE assignList(all, e, entity, id),
                         e, entity, id + 1)

assignLists(all, e, entity) == assignListsFrom(all, e, entity, 1)

\* getLinkedComponentList(id, true): the world with the list created when missing
getLinkedComponentList(w, e, id) ==
    IF w.entities[e].linkedComponents[id] = NoList
    THEN [w EXCEPT !.entities[e].linkedComponents[id] = None]
    ELSE w

\* addTag without the test for the tag being there
Entity_addTagAlways(w, e, tag) ==
    dispatchOnComponentAdded([w EXCEPT !.entities[e].tags = @ \cup {tag}], e, tag)

Entity_addTag(w, e, tag) ==
    IF ~Entity_hasTag(w, e, tag)
    THEN dispatchOnComponentAdded(
            [w EXCEPT !.entities[e].tags = @ \cup {tag}], e, tag)
    ELSE w

Entity_removeTag(w, e, tag) ==
    IF Entity_hasTag(w, e, tag)
    THEN dispatchOnComponentRemoved(
            [w EXCEPT !.entities[e].tags = @ \ {tag}], e, tag)
    ELSE w

\* withdrawComponent after componentList.remove(component) gave r: the slot and the
\* list are deleted when the list is empty, else the slot holds the list's head
withdrawUpdate(w, e, cid, r) ==
    IF r.head = None
    THEN [w EXCEPT !.next = r.next,
                   !.entities = [deleteList(setHead(@, e, cid, None), e, cid)
                                    EXCEPT ![e].components[cid] = None]]
    ELSE [w EXCEPT !.next = r.next,
                   !.entities = [setHead(@, e, cid, r.head)
                                    EXCEPT ![e].components[cid] = r.head]]

\* withdrawComponent from componentList.remove(component) on, r its outcome
withdrawRemoved(w, e, component, cid, r) ==
    IF r.status = "hang" THEN Hang(w)
    ELSE IF r.status = "found"
    THEN ReturnFrom(dispatchOnComponentRemoved(withdrawUpdate(w, e, cid, r), e, component),
                    component)
    ELSE Return(withdrawUpdate(w, e, cid, r), None)

Entity_withdrawComponent(w, e, component, resolveClass) ==
    LET class == getComponentClass(component, resolveClass)
        cid == IF class = "throw" THEN 0 ELSE getComponentId(w, class)
        list == IF cid = 0 THEN NoList ELSE w.entities[e].linkedComponents[cid]
    IN IF class = "throw" THEN Throw(w)
       ELSE IF ~isLinkedComponent(component) THEN Entity_remove(w, e, ClassToken(class))
       ELSE IF ~Entity_hasComponent(w, e, class) \/ list = NoList THEN Return(w, None)
       ELSE withdrawRemoved(w, e, component, cid,
                            LinkedComponentList_remove(list, w.next, component))

Entity_withdraw(w, e, class) ==
    IF Entity_get(w, e, class) # None
    THEN Entity_withdrawComponent(w, e, Entity_get(w, e, class), class)
    ELSE Return(w, None)

\* pick(component, resolveClass)
Entity_pick(w, e, component, resolveClass) ==
    Entity_withdrawComponent(w, e, component, resolveClass)

\* removeComponent with one withdraw in place of the loop
removeLoopOnce(w, e, class, fuel) ==
    IF w.fault # "none" THEN w
    ELSE IF w.entities[e].linkedComponents[getComponentId(w, class)] \in {NoList, None} THEN w
    ELSE Entity_withdraw(w, e, class)

\* the loop of removeComponent: while (!list.isEmpty) this.withdraw(class); the
\* withdraw that empties the list deletes it from the entity
RECURSIVE removeLoop(_, _, _, _)
removeLoop(w, e, class, fuel) ==
    IF w.fault # "none" THEN w
    ELSE IF w.entities[e].linkedComponents[getComponentId(w, class)] \in {NoList, None} THEN w
    ELSE IF fuel = 0 THEN Hang(w)
    ELSE removeLoop(Entity_withdraw(w, e, class), e, class, fuel - 1)

Entity_removeComponent(w, e, class) ==
    LET id == getComponentId(w, class)
        value == IF id = 0 THEN None ELSE w.entities[e].components[id]
    IN IF value = None THEN Return(w, None)
       ELSE ReturnFrom(
              IF isLinkedComponent(value)
              THEN removeLoop(getLinkedComponentList(w, e, id), e, class, Fuel)
              ELSE dispatchOnComponentRemoved(
                       [w EXCEPT !.entities[e].components[id] = None], e, value),
              value)

Entity_remove(w, e, classOrTag) ==
    IF isTag(classOrTag) THEN ReturnFrom(Entity_removeTag(w, e, classOrTag), None)
    ELSE Entity_removeComponent(w, e, ClassOf(classOrTag))

\* appendComponent from componentList.add(component) on, r its outcome
appendAdded(w, e, component, componentId, r) ==
    IF r.status = "throw" THEN Throw(w)
    ELSE IF r.status = "hang" THEN Hang(w)
    ELSE dispatchOnComponentAdded(
            [w EXCEPT !.next = r.next,
                      !.entities = [setHead(@, e, componentId, r.head)
                                       EXCEPT ![e].components[componentId] =
                                                  IF @ = None THEN r.head ELSE @]],
            e, component)

\* appendComponent once the class has its id
appendToList(w, e, component, componentId) ==
    appendAdded(getLinkedComponentList(w, e, componentId), e, component, componentId,
                LinkedComponentList_add(
                    getLinkedComponentList(w, e, componentId)
                        .entities[e].linkedComponents[componentId],
                    w.next, component))

Entity_appendComponent(w, e, component, resolveClass) ==
    IF getComponentClass(component, resolveClass) = "throw" THEN Throw(w)
    ELSE appendToList(assignComponentId(w, getComponentClass(component, resolveClass)),
                      e, component,
                      getComponentId(
                          assignComponentId(w, getComponentClass(component, resolveClass)),
                          getComponentClass(component, resolveClass)))

Entity_append(w, e, component, resolveClass) ==
    Entity_appendComponent(w, e, component, resolveClass)

\* addComponent after this.remove(componentClass), when the slot was taken
addInstall(w, e, component, resolveClass, id) ==
    IF w.fault # "none" THEN w
    ELSE IF isLinkedComponent(component) THEN Entity_append(w, e, component, resolveClass)
    ELSE dispatchOnComponentAdded(
            [w EXCEPT !.entities[e].components[id] = component], e, component)

\* addComponent that installs over what the slot holds
addToSlotOverwrites(w, e, component, resolveClass, componentClass, id) ==
    IF isLinkedComponent(component) THEN Entity_append(w, e, component, resolveClass)
    ELSE dispatchOnComponentAdded(
            [w EXCEPT !.entities[e].components[id] = component], e, component)

\* addComponent once the class has its id
addToSlot(w, e, component, resolveClass, componentClass, id) ==
    IF w.entities[e].components[id] # None /\ ~isLinkedComponent(component)
       /\ component = w.entities[e].components[id]
    THEN w
    ELSE addInstall(IF w.entities[e].components[id] # None
                    THEN Entity_remove(w, e, ClassToken(componentClass))
                    ELSE w,
                    e, component, resolveClass, id)

Entity_addComponent(w, e, component, resolveClass) ==
    IF getComponentClass(component, resolveClass) = "throw" THEN Throw(w)
    ELSE addToSlot(assignComponentId(w, getComponentClass(component, resolveClass)),
                   e, component, resolveClass,
                   getComponentClass(component, resolveClass),
                   getComponentId(
                       assignComponentId(w, getComponentClass(component, resolveClass)),
                       getComponentClass(component, resolveClass)))

Entity_add(w, e, componentOrTag, resolveClass) ==
    IF isTag(componentOrTag) THEN Entity_addTag(w, e, componentOrTag)
    ELSE Entity_addComponent(w, e, componentOrTag, resolveClass)

Entity_clear(w, e) ==
    [w EXCEPT !.entities = [deleteLists(@, e) EXCEPT ![e].components = [i \in Ids |-> None],
                                                     ![e].tags = {}]]

\* copyFrom: the maps are copied, and each list is held by both entities
Entity_copyFrom(w, e, entity) ==
    [w EXCEPT !.entities = [assignLists(deleteLists(@, e), e, entity)
                               EXCEPT ![e].components = w.entities[entity].components,
                                      ![e].tags = w.entities[entity].tags]]

\* the chain of class on e, as iterate and lengthOf visit it: [nodes, cyclic]
\* invalidate(): this.onInvalidationRequested.emit(this)
Entity_invalidate(w, e) ==
    Signal_emit(w, EntitySignal(e, "onInvalidationRequested"), [entity |-> e, item |-> None])

Entity_nodes(w, e, class) ==
    IF getComponentId(w, class) = 0 THEN [nodes |-> <<>>, cyclic |-> FALSE]
    ELSE LinkedComponentList_nodes(
            w.entities[e].linkedComponents[getComponentId(w, class)], w.next)

\* takeSnapshot from "if (changedComponentOrTag === undefined) return" on, for a tag
snapshotTag(w, e, previousState, tag) ==
    IF Entity_has(w, e, tag)
    THEN [w EXCEPT !.entities[previousState].tags = @ \ {tag}]
    ELSE [w EXCEPT !.entities[previousState].tags = @ \cup {tag}]

\* takeSnapshot that leaves previous as the copy made it
snapshotComponentKeeps(w, e, previousState, component, componentClass) == w

\* and for a component, whose class has its id
snapshotComponent(w, e, previousState, component, componentClass) ==
    IF Entity_has(w, e, ClassToken(componentClass))
    THEN [w EXCEPT !.entities[previousState].components[getComponentId(w, componentClass)] =
                       None]
    ELSE [w EXCEPT !.entities[previousState].components[getComponentId(w, componentClass)] =
                       component]

\* the first lines of takeSnapshot; the snapshot is named by its _previous entity
snapshotCopy(w, e, previousState) ==
    IF w.snapshots[previousState] # e
    THEN Entity_copyFrom([w EXCEPT !.snapshots[previousState] = e], previousState, e)
    ELSE w

\* takeSnapshot(result, changedComponentOrTag, resolveClass)
Entity_takeSnapshot(w, e, previousState, changedComponentOrTag, resolveClass) ==
    IF changedComponentOrTag = None THEN snapshotCopy(w, e, previousState)
    ELSE IF isTag(changedComponentOrTag)
    THEN snapshotTag(snapshotCopy(w, e, previousState), e, previousState,
                     changedComponentOrTag)
    ELSE snapshotComponent(
            assignComponentId(snapshotCopy(w, e, previousState),
                              IF resolveClass # NoClass THEN resolveClass
                              ELSE ClassOf(changedComponentOrTag)),
            e, previousState, changedComponentOrTag,
            IF resolveClass # NoClass THEN resolveClass ELSE ClassOf(changedComponentOrTag))

----------------------------------------------------------------------------
(* Query.ts.  A predicate is a record: the closure QueryBuilder.build()    *)
(* makes over its builder's sets, or the hand-written                      *)
(* (entity) => entity.has(X) && !entity.has(Y) of the tests.               *)

BuiltPredicate(b) == [kind |-> "hasAll", builder |-> b, has |-> None, lacks |-> None]
CustomPredicate(has, lacks) == [kind |-> "custom", builder |-> 0, has |-> has, lacks |-> lacks]
\* (entity) => entity.has(A) && entity.get(A)!.y === 0 of the invalidation tests
FieldPredicate == [kind |-> "field", builder |-> 0, has |-> ClassToken("A"), lacks |-> None]

\* hasAll that reads the components only
hasAllComponents(w, e, components, tags) ==
    \A componentId \in components : w.entities[e].components[componentId] # None

\* hasAll(entity, components, tags) of Query.ts
hasAll(w, e, components, tags) ==
    /\ \A componentId \in components : w.entities[e].components[componentId] # None
    /\ \A tag \in tags : tag \in w.entities[e].tags

Query_predicate(w, q, e) ==
    IF w.queries[q].predicate.kind = "hasAll"
    THEN hasAll(w, e, w.builders[w.queries[q].predicate.builder].components,
                w.builders[w.queries[q].predicate.builder].tags)
    ELSE IF w.queries[q].predicate.kind = "field"
    THEN Entity_has(w, e, ClassToken("A")) /\ w.fieldY[Entity_get(w, e, "A")] = 0
    ELSE Entity_has(w, e, w.queries[q].predicate.has)
         /\ ~Entity_has(w, e, w.queries[q].predicate.lacks)

\* QueryBuilder.contains(componentOrTag)
QueryBuilder_contains(w, b, classOrTag) ==
    IF isTag(classOrTag)
    THEN [w EXCEPT !.builders[b].tags = @ \cup {classOrTag}]
    ELSE [assignComponentId(w, ClassOf(classOrTag)) EXCEPT
            !.builders[b].components =
                @ \cup {getComponentId(assignComponentId(w, ClassOf(classOrTag)),
                                       ClassOf(classOrTag))}]

IndexOf(seq, x) ==
    IF \E i \in 1..Len(seq) : seq[i] = x
    THEN CHOOSE i \in 1..Len(seq) : seq[i] = x /\ \A j \in 1..(i - 1) : seq[j] # x
    ELSE 0

Splice(seq, i) == SubSeq(seq, 1, i - 1) \o SubSeq(seq, i + 1, Len(seq))

Query_has(w, q, e) == IndexOf(w.queries[q].entities, e) # 0

\* emit(this._snapshot): the listener reads the query's snapshot; item tells the
\* model's observer which change the notification is about
Query_emit(w, q, name, entity, item) ==
    Signal_emit(w, QuerySignal(q, name), [entity |-> entity, item |-> item])

\* if (hasHandlers) { entity.takeSnapshot(this._snapshot, ...); signal.emit(this._snapshot) }
Query_notify(w, q, name, hasHandlers, entity, item, componentClass) ==
    IF hasHandlers
    THEN Query_emit(Entity_takeSnapshot(w, entity, PreviousOf(q), item, componentClass),
                    q, name, entity, item)
    ELSE w

Query_push(w, q, entity) == [w EXCEPT !.queries[q].entities = Append(@, entity)]

\* a query that keeps the entity in its list
Query_spliceKeeps(w, q, entity) == w

Query_splice(w, q, entity) ==
    [w EXCEPT !.queries[q].entities = Splice(@, IndexOf(@, entity))]

Query_entityAdded(w, q, entity) ==
    IF ~Query_has(w, q, entity) /\ Query_predicate(w, q, entity)
    THEN Query_notify(Query_push(w, q, entity), q, "onEntityAdded",
                      Signal_hasHandlers(w.queries[q].onEntityAdded), entity, None, NoClass)
    ELSE w

Query_entityRemoved(w, q, entity) ==
    IF Query_has(w, q, entity)
    THEN Query_notify(Query_splice(w, q, entity), q, "onEntityRemoved",
                      Signal_hasHandlers(w.queries[q].onEntityRemoved), entity, None, NoClass)
    ELSE w

\* this._helper.clear(); this._helper.copyFrom(entity)
helperCopy(w, q, entity) == Entity_copyFrom(Entity_clear(w, HelperOf(q)), HelperOf(q), entity)

Query_updateHelper(w, q, entity, component, resolveClass) ==
    IF ~isLinkedComponent(component)
    THEN Entity_add(helperCopy(w, q, entity), HelperOf(q), component, NoClass)
    ELSE IF ~Entity_has(helperCopy(w, q, entity), HelperOf(q),
                        ClassToken(getComponentClass(component, resolveClass)))
    THEN Entity_append(helperCopy(w, q, entity), HelperOf(q), component, NoClass)
    ELSE helperCopy(w, q, entity)

\* entityComponentAdded from "const index" on
componentAddedMatch(w, q, entity, componentOrTag, componentClass, hasAddedHandlers, hasRemovedHandlers) ==
    IF ~Query_has(w, q, entity) /\ Query_predicate(w, q, HelperOf(q))
    THEN Query_notify(Query_push(w, q, entity), q, "onEntityAdded", hasAddedHandlers,
                      entity, componentOrTag, componentClass)
    ELSE IF Query_has(w, q, entity) /\ ~Query_predicate(w, q, HelperOf(q))
    THEN Query_notify(Query_splice(w, q, entity), q, "onEntityRemoved", hasRemovedHandlers,
                      entity, componentOrTag, componentClass)
    ELSE w

Query_entityComponentAdded(w, q, entity, componentOrTag, componentClass) ==
    componentAddedMatch(Query_updateHelper(w, q, entity, componentOrTag, componentClass),
                        q, entity, componentOrTag, componentClass,
                        Signal_hasHandlers(w.queries[q].onEntityAdded),
                        Signal_hasHandlers(w.queries[q].onEntityRemoved))

\* entityComponentRemoved from "const index" on
componentRemovedMatch(w, q, entity, component, componentClass, hasAddedHandlers, hasRemovedHandlers) ==
    IF Query_has(w, q, entity) /\ Query_predicate(w, q, HelperOf(q))
                               /\ ~Query_predicate(w, q, entity)
    THEN Query_notify(Query_splice(w, q, entity), q, "onEntityRemoved", hasRemovedHandlers,
                      entity, component, componentClass)
    ELSE IF ~Query_has(w, q, entity) /\ Query_predicate(w, q, entity)
                                     /\ ~Query_predicate(w, q, HelperOf(q))
    THEN Query_notify(Query_push(w, q, entity), q, "onEntityAdded", hasAddedHandlers,
                      entity, component, componentClass)
    ELSE w

Query_entityComponentRemoved(w, q, entity, component, componentClass) ==
    componentRemovedMatch(Query_updateHelper(w, q, entity, component, componentClass),
                          q, entity, component, componentClass,
                          Signal_hasHandlers(w.queries[q].onEntityAdded),
                          Signal_hasHandlers(w.queries[q].onEntityRemoved))

\* validateEntity that never removes
Query_validateEntityAddsOnly(w, q, entity) == Query_entityAdded(w, q, entity)

Query_validateEntity(w, q, entity) ==
    IF Query_has(w, q, entity) /\ ~Query_predicate(w, q, entity)
    THEN Query_entityRemoved(w, q, entity)
    ELSE Query_entityAdded(w, q, entity)

\* matchEntities: entities.forEach(entity => this.entityAdded(entity))
RECURSIVE Query_matchEntities(_, _, _)
Query_matchEntities(w, q, list) ==
    IF list = <<>> \/ w.fault # "none" THEN w
    ELSE Query_matchEntities(Query_entityAdded(w, q, Head(list)), q, Tail(list))

\* this._entities = []: a new array; a loop over the old one goes on over it
Query_clear(w, q) ==
    [w EXCEPT !.queries[q].entities = <<>>, !.replaced.queries[q] = @ + 1]

----------------------------------------------------------------------------
(* Engine.ts *)

Engine_connectEntity(w, entity) ==
    IF w.fault # "none" THEN w
    ELSE [w EXCEPT
       !.entities[entity].onComponentAdded =
           Signal_connect(@, Handler("Engine.onComponentAdded", 0), PriorityLast),
       !.entities[entity].onComponentRemoved =
           Signal_connect(@, Handler("Engine.onComponentRemoved", 0), PriorityLast),
       !.entities[entity].onInvalidationRequested =
           Signal_connect(@, Handler("Engine.onInvalidationRequested", 0), PriorityFirst)]

Engine_disconnectEntity(w, entity) ==
    IF w.fault # "none" THEN w
    ELSE [w EXCEPT
       !.entities[entity].onComponentAdded =
           Signal_disconnect(@, Handler("Engine.onComponentAdded", 0)),
       !.entities[entity].onComponentRemoved =
           Signal_disconnect(@, Handler("Engine.onComponentRemoved", 0)),
       !.entities[entity].onInvalidationRequested =
           Signal_disconnect(@, Handler("Engine.onInvalidationRequested", 0))]

Engine_connectQuery(w, q) ==
    [w EXCEPT
       !.engine.onEntityAdded = Signal_connect(@, Handler("Query.entityAdded", q), 0),
       !.engine.onEntityRemoved = Signal_connect(@, Handler("Query.entityRemoved", q), 0)]

Engine_disconnectQuery(w, q) ==
    [w EXCEPT
       !.engine.onEntityAdded = Signal_disconnect(@, Handler("Query.entityAdded", q)),
       !.engine.onEntityRemoved = Signal_disconnect(@, Handler("Query.entityRemoved", q))]

\* what the host's listeners do, once, during a call besides noting it: the
\* listener `on` (a listener's number, or <<query, kind>> for the listener of
\* a query's signal) does act with t
NoPlan == [on |-> <<0, "none">>, act |-> "none", t |-> None]

\* how often, during the call, _systems and a query's _entities were given a
\* new array
NoneReplaced == [systems |-> 0, queries |-> [q \in QueryIds |-> 0]]

\* the fields of a new System: _priority = 0, _engine undefined, _removed = false
NewSystem == [priority |-> 0, engine |-> FALSE, removed |-> FALSE]

\* the fields of a new Engine, before its constructor connects _sharedConfig
NewEngine ==
    [entities |-> <<>>, entityMap |-> {}, queries |-> <<>>, systems |-> <<>>,
     onEntityAdded |-> <<>>, onEntityRemoved |-> <<>>]

\* addEntity without the test of _entityMap
Engine_addEntityAgain(w, entity) ==
    Engine_connectEntity(
        Signal_emit([w EXCEPT !.engine.entities = Append(@, entity),
                              !.engine.entityMap = @ \cup {entity}],
                    EngineSignal("onEntityAdded"), [entity |-> entity, item |-> None]),
        entity)

Engine_addEntity(w, entity) ==
    IF entity \in w.engine.entityMap THEN w
    ELSE Engine_connectEntity(
            Signal_emit([w EXCEPT !.engine.entities = Append(@, entity),
                                  !.engine.entityMap = @ \cup {entity}],
                        EngineSignal("onEntityAdded"), [entity |-> entity, item |-> None]),
            entity)

Engine_removeEntity(w, entity) ==
    IF entity \notin w.engine.entityMap THEN w
    ELSE Engine_disconnectEntity(
            Signal_emit([w EXCEPT !.engine.entities = Splice(@, IndexOf(@, entity)),
                                  !.engine.entityMap = @ \ {entity}],
                        EngineSignal("onEntityRemoved"), [entity |-> entity, item |-> None]),
            entity)

\* this._queries[this._queries.length] = query
Engine_pushQuery(w, q) ==
    IF w.fault # "none" THEN w ELSE [w EXCEPT !.engine.queries = Append(@, q)]

Engine_addQuery(w, q) ==
    Engine_pushQuery(Query_matchEntities(Engine_connectQuery(w, q), q, w.engine.entities), q)

Engine_removeQuery(w, q) ==
    IF IndexOf(w.engine.queries, q) = 0 THEN w
    ELSE Query_clear(
           Engine_disconnectQuery(
             [w EXCEPT !.engine.queries = Splice(@, IndexOf(@, q))], q), q)

\* this._queries.forEach(value => value.<method>(entity, component, componentClass)):
\* forEach visits the indices below the length it started with that the array
\* still has; the entity's signals pass (entity, component), so componentClass
\* is undefined
RECURSIVE Engine_forEachQuery(_, _, _, _, _, _)
Engine_forEachQuery(w, k, len, method, entity, component) ==
    IF k > len \/ k > Len(w.engine.queries) \/ w.fault # "none" THEN w
    ELSE Engine_forEachQuery(
           CASE method = "entityComponentAdded" ->
                  Query_entityComponentAdded(w, w.engine.queries[k], entity, component, NoClass)
             [] method = "entityComponentRemoved" ->
                  Query_entityComponentRemoved(w, w.engine.queries[k], entity, component,
                                               NoClass)
             [] OTHER -> Query_validateEntity(w, w.engine.queries[k], entity),
           k + 1, len, method, entity, component)

Engine_onComponentAdded(w, entity, component) ==
    Engine_forEachQuery(w, 1, Len(w.engine.queries), "entityComponentAdded",
                        entity, component)

Engine_onComponentRemoved(w, entity, component) ==
    Engine_forEachQuery(w, 1, Len(w.engine.queries), "entityComponentRemoved",
                        entity, component)

Engine_onInvalidationRequested(w, entity) ==
    Engine_forEachQuery(w, 1, Len(w.engine.queries), "validateEntity", entity, None)

----------------------------------------------------------------------------
(* The host's listeners, as the tests connect them. *)

View(w, e) == [components |-> w.entities[e].components, tags |-> w.entities[e].tags]

\* entity.onComponentAdded.connect(() => addedCount++) and its like
Host_onComponent(w, kind, entity, item) ==
    [w EXCEPT !.log = Append(@, [kind |-> kind, entity |-> entity, item |-> item])]

\* what a listener reads from the snapshot whose _previous is previousState
Host_read(w, kind, q, previousState, item) ==
    [w EXCEPT !.seen = Append(@,
        [kind |-> kind, q |-> q, entity |-> w.snapshots[previousState], item |-> item,
         previous |-> View(w, previousState),
         current |-> View(w, w.snapshots[previousState])])]

\* entity.onComponentAdded.connect((entity, componentOrTag) =>
\*     entity.takeSnapshot(snapshot, componentOrTag))
Host_takeSnapshot(w, kind, entity, item) ==
    Host_read(Entity_takeSnapshot(w, entity, HostPrevious, item, NoClass),
              kind, 0, HostPrevious, item)

\* what the plan makes a listener of a query do: a call on entity plan.t[1],
\* whose return value the listener drops
Host_entityAct(w, act, t) ==
    [(CASE act = "add" -> Entity_add(w, t[1], t[2], NoClass)
        [] act = "remove" -> Entity_remove(w, t[1], t[2])
        [] act = "removeEntity" -> Engine_removeEntity(w, t[1])
        [] OTHER -> w) EXCEPT !.ret = w.ret]

\* query.onEntityAdded.connect((snapshot) => ...): the listener reads the
\* snapshot and, the first time the plan names it, does what the plan says
Host_onEntity(w, kind, q, item) ==
    IF w.plan.on = <<q, kind>>
    THEN Host_entityAct(Host_read([w EXCEPT !.plan = NoPlan], kind, q, PreviousOf(q), item),
                        w.plan.act, w.plan.t)
    ELSE Host_read(w, kind, q, PreviousOf(q), item)

\* the signal of the signal tests: the host connects listeners to it and
\* emits it
TestSignal == EntitySignal(<<"entity", 1>>, "onInvalidationRequested")

\* a listener of the host on TestSignal: it notes the call and, when the plan
\* names it, disconnects listener plan.t
Host_listener(w, k, args) ==
    IF w.plan.on = <<k, "listener">> /\ w.plan.act = "disconnect"
    THEN [Host_onComponent(w, "handled", args.entity, <<"listener", k>>) EXCEPT
             !.entities[TestSignal.ref].onInvalidationRequested =
                 Signal_disconnect(@, Handler("Host.listener", w.plan.t))]
    ELSE Host_onComponent(w, "handled", args.entity, <<"listener", k>>)

\* handler.handle(...args)
Handle(w, h, args) ==
    CASE h.fn = "Engine.onComponentAdded" ->
            Engine_onComponentAdded(w, args.entity, args.item)
      [] h.fn = "Engine.onComponentRemoved" ->
            Engine_onComponentRemoved(w, args.entity, args.item)
      [] h.fn = "Engine.onInvalidationRequested" ->
            Engine_onInvalidationRequested(w, args.entity)
      [] h.fn = "Query.entityAdded" -> Query_entityAdded(w, h.q, args.entity)
      [] h.fn = "Query.entityRemoved" -> Query_entityRemoved(w, h.q, args.entity)
      [] h.fn = "Host.componentAdded" -> Host_onComponent(w, "added", args.entity, args.item)
      [] h.fn = "Host.componentRemoved" ->
            Host_onComponent(w, "removed", args.entity, args.item)
      [] h.fn = "Host.snapshotAdded" -> Host_takeSnapshot(w, "added", args.entity, args.item)
      [] h.fn = "Host.snapshotRemoved" ->
            Host_takeSnapshot(w, "removed", args.entity, args.item)
      [] h.fn = "Host.entityAdded" -> Host_onEntity(w, "added", h.q, args.item)
      [] h.fn = "Host.entityRemoved" -> Host_onEntity(w, "removed", h.q, args.item)
      [] h.fn = "Host.engineEntityAdded" ->
            Host_onComponent(w, "entityAdded", args.entity, None)
      [] h.fn = "Host.engineEntityRemoved" ->
            Host_onComponent(w, "entityRemoved", args.entity, None)
      [] h.fn \in {"System.entityAdded", "System.entityRemoved"} -> w
      [] h.fn = "Host.listener" -> Host_listener(w, h.q, args)

\* Signal.emit: for (const handler of this.handlers) handler.handle(...args), the
\* array read anew at every step
RECURSIVE Signal_emitFrom(_, _, _, _)
Signal_emitFrom(w, sig, i, args) ==
    IF w.fault # "none" \/ i > Len(HandlersOf(w, sig)) THEN w
    ELSE Signal_emitFrom(Handle(w, HandlersOf(w, sig)[i], args), sig, i + 1, args)

Signal_emit(w, sig, args) == Signal_emitFrom(w, sig, 1, args)

----------------------------------------------------------------------------
(* System.ts, ReactionSystem, IterativeSystem and the Engine's methods on   *)
(* its systems.  A plain system has no query; the one IterativeSystem of    *)
(* the model iterates over query 2.  The engine a ReactionSystem is handed  *)
(* in onAddedToEngine(engine) is the engine that adds it.                   *)

SystemQuery(s) == IF s = IterativeSystem1 THEN 2 ELSE 0

\* get engine(), get sharedConfig() and dispatch(message) of System
System_access(w, s, member) ==
    IF ~w.systems[s].engine THEN Throw(w) ELSE Return(w, <<member, 0>>)

\* ReactionSystem.onAddedToEngine; System.onAddedToEngine does nothing
System_onAddedToEngine(w, s) ==
    IF SystemQuery(s) = 0 \/ w.fault # "none" THEN w
    ELSE [Engine_addQuery(w, SystemQuery(s)) EXCEPT
            !.queries[SystemQuery(s)].onEntityAdded =
                Signal_connect(@, Handler("System.entityAdded", SystemQuery(s)), 0),
            !.queries[SystemQuery(s)].onEntityRemoved =
                Signal_connect(@, Handler("System.entityRemoved", SystemQuery(s)), 0)]

\* ReactionSystem.onRemovedFromEngine after engine.removeQuery(this.query)
reactionDisconnect(w, q) ==
    [w EXCEPT !.queries[q].onEntityAdded =
                  Signal_disconnect(@, Handler("System.entityAdded", q)),
              !.queries[q].onEntityRemoved =
                  Signal_disconnect(@, Handler("System.entityRemoved", q)),
              !.queries[q].entities = <<>>]

\* IterativeSystem.onRemovedFromEngine: this._removed = true, then
\* ReactionSystem's; System.onRemovedFromEngine does nothing
System_onRemovedFromEngine(w, s) ==
    IF SystemQuery(s) = 0 \/ w.fault # "none" THEN w
    ELSE reactionDisconnect(
            Engine_removeQuery([w EXCEPT !.systems[s].removed = TRUE], SystemQuery(s)),
            SystemQuery(s))

\* this._systems.findIndex(value => value.priority > priority) + 1, 0 for -1
findIndexAbove(w, priority) ==
    IF \E i \in DOMAIN w.engine.systems : w.systems[w.engine.systems[i]].priority > priority
    THEN CHOOSE i \in DOMAIN w.engine.systems :
            /\ w.systems[w.engine.systems[i]].priority > priority
            /\ \A j \in 1..(i - 1) : w.systems[w.engine.systems[j]].priority <= priority
    ELSE 0

InsertAt(seq, i, x) == SubSeq(seq, 1, i - 1) \o <<x>> \o SubSeq(seq, i, Len(seq))

\* addSystem after system.setPriority(priority)
addSystemInsert(w, s, priority) ==
    System_onAddedToEngine(
        [w EXCEPT !.engine.systems =
                      IF findIndexAbove(w, priority) = 0 THEN Append(@, s)
                      ELSE InsertAt(@, findIndexAbove(w, priority), s),
                  !.systems[s].engine = TRUE],
        s)

Engine_addSystem(w, s, priority) ==
    addSystemInsert([w EXCEPT !.systems[s].priority = priority], s, priority)

Engine_removeSystem(w, s) ==
    IF IndexOf(w.engine.systems, s) = 0 THEN w
    ELSE [System_onRemovedFromEngine(
             [w EXCEPT !.engine.systems = Splice(@, IndexOf(@, s))], s)
          EXCEPT !.systems[s].engine = FALSE]

\* for (const system of systems) system.onRemovedFromEngine()
RECURSIVE removeEachSystem(_, _)
removeEachSystem(w, list) ==
    IF list = <<>> \/ w.fault # "none" THEN w
    ELSE removeEachSystem(System_onRemovedFromEngine(w, Head(list)), Tail(list))

\* this._systems = []: a new array, as in Query.clear
Engine_removeAllSystems(w) ==
    removeEachSystem([w EXCEPT !.engine.systems = <<>>, !.replaced.systems = @ + 1],
                     w.engine.systems)

\* for (const query of queries) { this.disconnectQuery(query); query.clear() }
RECURSIVE removeEachQuery(_, _)
removeEachQuery(w, list) ==
    IF list = <<>> \/ w.fault # "none" THEN w
    ELSE removeEachQuery(Query_clear(Engine_disconnectQuery(w, Head(list)), Head(list)),
                         Tail(list))

Engine_removeAllQueries(w) ==
    IF w.fault # "none" THEN w
    ELSE removeEachQuery([w EXCEPT !.engine.queries = <<>>], w.engine.queries)

\* for (const entity of entities) { if (!silently) emit; this.disconnectEntity(entity) }
RECURSIVE removeEachEntity(_, _, _)
removeEachEntity(w, list, silently) ==
    IF list = <<>> \/ w.fault # "none" THEN w
    ELSE removeEachEntity(
            Engine_disconnectEntity(
                IF silently THEN w
                ELSE Signal_emit(w, EngineSignal("onEntityRemoved"),
                                 [entity |-> Head(list), item |-> None]),
                Head(list)),
            Tail(list), silently)

Engine_removeAllEntitiesInternal(w, silently) ==
    removeEachEntity([w EXCEPT !.engine.entities = <<>>, !.engine.entityMap = {}],
                     w.engine.entities, silently)

\* clear that removes the entities as removeAllEntities does, not silently
Engine_clearNotSilently(w) ==
    Engine_removeAllQueries(Engine_removeAllSystems(Engine_removeAllEntitiesInternal(w, FALSE)))

Engine_clear(w) ==
    Engine_removeAllQueries(Engine_removeAllSystems(Engine_removeAllEntitiesInternal(w, TRUE)))

----------------------------------------------------------------------------
(* Engine.update with the systems of the host.  does tells what the update  *)
(* of the host's systems does besides noting the call: the system does.s    *)
(* removes or adds the system does.t on its first update of the pass; the   *)
(* IterativeSystem's updateEntity removes the entity it is called with      *)
(* from the engine when does.act says so.                                   *)

NoAct == [s |-> NoSystem, act |-> "none", t |-> NoSystem, p |-> 0]

Host_systemAct(w, s, does) ==
    IF does.s # s \/ Cardinality({i \in DOMAIN w.log : w.log[i].kind = "update"
                                                        /\ w.log[i].item = s}) > 1
    THEN w
    ELSE IF ~w.systems[s].engine THEN Throw(w)
    ELSE IF does.act = "remove" THEN Engine_removeSystem(w, does.t)
    ELSE IF does.act = "add" THEN Engine_addSystem(w, does.t, does.p)
    ELSE w

\* what updateEntity does with this.engine, which it can read
Host_updateEntityAct(w, s, entity, does) ==
    CASE does.act = "removeEntity" -> Engine_removeEntity(w, entity)
      [] does.act = "removeSystem" -> Engine_removeSystem(w, s)
      [] does.act = "removeAllSystems" -> Engine_removeAllSystems(w)
      [] does.act = "clear" -> Engine_clear(w)
      [] OTHER -> w

\* updateEntity(entity, dt) of the host's IterativeSystem
Host_updateEntity(w, s, entity, does) ==
    IF does.act = "none" THEN Host_onComponent(w, "updateEntity", entity, s)
    ELSE IF ~w.systems[s].engine
    THEN Throw(Host_onComponent(w, "updateEntity", entity, s))
    ELSE Host_updateEntityAct(Host_onComponent(w, "updateEntity", entity, s), s, entity, does)

\* for (let entity of this.query.entities) { if (this._removed) return; ... }:
\* array is the array the loop began with, as it is now; a splice changes it,
\* Query.clear leaves it to the loop and gives the query another
RECURSIVE updateEntities(_, _, _, _, _, _)
updateEntitiesNext(w, s, array, replaced, i, does) ==
    updateEntities(w, s,
                   IF w.replaced.queries[SystemQuery(s)] = replaced
                   THEN w.queries[SystemQuery(s)].entities ELSE array,
                   replaced, i + 1, does)

updateEntities(w, s, array, replaced, i, does) ==
    IF w.fault # "none" \/ i > Len(array) \/ w.systems[s].removed THEN w
    ELSE updateEntitiesNext(Host_updateEntity(w, s, array[i], does),
                            s, array, replaced, i, does)

\* updateEntities without the test of _removed
RECURSIVE updateEntitiesUnguarded(_, _, _, _, _, _)
updateEntitiesUnguardedNext(w, s, array, replaced, i, does) ==
    updateEntitiesUnguarded(w, s,
                            IF w.replaced.queries[SystemQuery(s)] = replaced
                            THEN w.queries[SystemQuery(s)].entities ELSE array,
                            replaced, i + 1, does)

updateEntitiesUnguarded(w, s, array, replaced, i, does) ==
    IF w.fault # "none" \/ i > Len(array) THEN w
    ELSE updateEntitiesUnguardedNext(Host_updateEntity(w, s, array[i], does),
                                     s, array, replaced, i, does)

\* IterativeSystem.update whose updateEntities has no test of _removed
IterativeSystem_updateUnguarded(w, s, does) ==
    updateEntitiesUnguarded(w, s, w.queries[SystemQuery(s)].entities,
                            w.replaced.queries[SystemQuery(s)], 1, does)

\* IterativeSystem.update(dt): this.updateEntities(dt)
IterativeSystem_update(w, s, does) ==
    updateEntities(w, s, w.queries[SystemQuery(s)].entities,
                   w.replaced.queries[SystemQuery(s)], 1, does)

\* system.update(dt)
System_update(w, s, does) ==
    IF SystemQuery(s) # 0 THEN IterativeSystem_update(w, s, does)
    ELSE Host_systemAct(Host_onComponent(w, "update", NoEntity, s), s, does)

\* for (const system of this._systems) system.update(dt): array as in
\* updateEntities; removeAllSystems leaves it to the loop
RECURSIVE updateFrom(_, _, _, _, _)
updateFromNext(w, array, replaced, i, does) ==
    updateFrom(w, IF w.replaced.systems = replaced THEN w.engine.systems ELSE array,
               replaced, i + 1, does)

updateFrom(w, array, replaced, i, does) ==
    IF w.fault # "none" \/ i > Len(array) THEN w
    ELSE updateFromNext(System_update(w, array[i], does), array, replaced, i, does)

Engine_update(w, does) == updateFrom(w, w.engine.systems, w.replaced.systems, 1, does)

----------------------------------------------------------------------------
(* Entity.iterate and lengthOf, with the action the host passes: it notes  *)
(* the visit and picks the visited instance when picks names it or its     *)
(* class (as the README's entity.iterate(Boon, boon => entity.pick(boon)). *)

IterateFuel == Fuel + Fuel

Host_visit(w, e, node, picks, class) ==
    IF picks = node \/ picks = ClassToken(class)
    THEN Entity_pick(Host_onComponent(w, "visited", e, node), e, node, class)
    ELSE Host_onComponent(w, "visited", e, node)

\* LinkedComponentList.iterate: for (const node of this.nodes()) action(node); the
\* generator reads node.next when it is resumed, after the action
RECURSIVE iterateFrom(_, _, _, _, _, _)
iterateNext(w, e, class, picks, node, fuel) ==
    iterateFrom(w, e, class, picks, w.next[node], fuel - 1)

iterateFrom(w, e, class, picks, node, fuel) ==
    IF w.fault # "none" \/ node = None THEN w
    ELSE IF fuel = 0 THEN Hang(w)
    ELSE iterateNext(Host_visit(w, e, node, picks, class), e, class, picks, node, fuel)

\* iterate(componentClass, action): getLinkedComponentList creates the list it
\* does not find
Entity_iterate(w, e, class, picks) ==
    IF ~Entity_hasComponent(w, e, class) THEN w
    ELSE iterateFrom(getLinkedComponentList(w, e, getComponentId(w, class)), e, class, picks,
                     IF w.entities[e].linkedComponents[getComponentId(w, class)] = NoList
                     THEN None
                     ELSE w.entities[e].linkedComponents[getComponentId(w, class)],
                     IterateFuel)

\* lengthOf: the number of times iterate calls its action, as <<"count", n>>
lengthOfResult(w) == IF w.fault # "none" THEN w ELSE Return(w, <<"count", Len(w.log)>>)

Entity_lengthOf(w, e, class) == lengthOfResult(Entity_iterate(w, e, class, None))

----------------------------------------------------------------------------
(* The state.  W is the world the variables hold when a call begins; the   *)
(* listeners' records of the previous call are dropped.                    *)

W ==
    [componentIds |-> componentIds, componentClassId |-> componentClassId,
     next |-> next, entities |-> entities, engine |-> engine, systems |-> systems,
     fieldY |-> fieldY, queries |-> queries, builders |-> builders, snapshots |-> snapshots,
     log |-> <<>>, seen |-> <<>>, fault |-> "none", ret |-> None, replaced |-> NoneReplaced,
     plan |-> NoPlan]

NewQuery(predicate) ==
    [predicate |-> predicate, entities |-> <<>>,
     onEntityAdded |-> <<>>, onEntityRemoved |-> <<>>]

\* module load, new Engine(), the entities and two queries built:
\*   1: new QueryBuilder().contains(A, L).build()
\*   2: new Query((entity) => entity.has(A) && !entity.has(L))
World0 ==
    LET w0 == [componentIds |-> [c \in Classes |-> 0],
               componentClassId |-> FirstComponentId,
               next |-> [x \in LinkedInstances |-> None],
               entities |-> [r \in AllEntityRefs |-> EmptyEntity],
               engine |-> NewEngine,
               systems |-> [s \in SystemRefs |-> NewSystem],
               fieldY |-> [x \in PlainInstances |-> 0],
               queries |-> [q \in QueryIds |->
                              IF q = 1 THEN NewQuery(BuiltPredicate(1))
                              ELSE NewQuery(CustomPredicate(ClassToken("A"),
                                                            ClassToken("L")))],
               builders |-> [b \in BuilderIds |-> [components |-> {}, tags |-> {}]],
               snapshots |-> [p \in PreviousRefs |-> NoEntity],
               log |-> <<>>, seen |-> <<>>, fault |-> "none", ret |-> None,
               replaced |-> NoneReplaced, plan |-> NoPlan]
    IN QueryBuilder_contains(
         QueryBuilder_contains(Engine_connectEntity(w0, SharedConfig), 1, ClassToken("A")),
         1, ClassToken("L"))

\* the host connects its listeners to the two signals of every query
RECURSIVE ListenToQueries(_, _)
ListenToQueries(w, qs) ==
    IF qs = {} THEN w
    ELSE LET q == CHOOSE x \in qs : TRUE
         IN ListenToQueries(
              [w EXCEPT !.queries[q].onEntityAdded =
                            Signal_connect(@, Handler("Host.entityAdded", q), 0),
                        !.queries[q].onEntityRemoved =
                            Signal_connect(@, Handler("Host.entityRemoved", q), 0)],
              qs \ {q})

\* engine.onEntityAdded.connect(...), engine.onEntityRemoved.connect(...) of the host
ListenToEngine(w) ==
    [w EXCEPT !.engine.onEntityAdded =
                  Signal_connect(@, Handler("Host.engineEntityAdded", 0), 0),
              !.engine.onEntityRemoved =
                  Signal_connect(@, Handler("Host.engineEntityRemoved", 0), 0)]

\* the host connects listeners fnAdded, fnRemoved to the two signals of every entity
RECURSIVE ListenToEntities(_, _, _, _)
ListenToEntities(w, es, fnAdded, fnRemoved) ==
    IF es = {} THEN w
    ELSE LET e == CHOOSE x \in es : TRUE
         IN ListenToEntities(
              [w EXCEPT !.entities[e].onComponentAdded =
                            Signal_connect(@, Handler(fnAdded, 0), 0),
                        !.entities[e].onComponentRemoved =
                            Signal_connect(@, Handler(fnRemoved, 0), 0)],
              es \ {e}, fnAdded, fnRemoved)

NoOp == [op |-> "init", e |-> NoEntity, x |-> None, r |-> NoClass, q |-> 0,
         fault |-> "none", ret |-> None]

Op(op, e, x, r, q) == [op |-> op, e |-> e, x |-> x, r |-> r, q |-> q,
                       fault |-> "none", ret |-> None]

NoPre == [entity |-> EmptyEntity, next |-> [x \in LinkedInstances |-> None]]

\* the host of the entity tests connects its own listeners to the entity and
\* keeps what the entity was before each call, to compare after it
Watched(e) ==
    /\ e \in EntityRefs
    /\ \E i \in DOMAIN entities[e].onComponentAdded :
          entities[e].onComponentAdded[i].fn \in {"Host.componentAdded", "Host.snapshotAdded"}

Start(w) ==
    /\ componentIds = w.componentIds
    /\ componentClassId = w.componentClassId
    /\ next = w.next
    /\ entities = w.entities
    /\ engine = w.engine
    /\ systems = w.systems
    /\ fieldY = w.fieldY
    /\ queries = w.queries
    /\ builders = w.builders
    /\ snapshots = w.snapshots
    /\ log = <<>>
    /\ seen = <<>>
    /\ lastOp = NoOp
    /\ pre = NoPre

\* the call ends in world w: it returned, threw (the host catches), or never returns
Commit(w, op) ==
    /\ componentIds' = w.componentIds
    /\ componentClassId' = w.componentClassId
    /\ next' = w.next
    /\ entities' = w.entities
    /\ engine' = w.engine
    /\ systems' = w.systems
    /\ fieldY' = w.fieldY
    /\ queries' = w.queries
    /\ builders' = w.builders
    /\ snapshots' = w.snapshots
    /\ log' = w.log
    /\ seen' = w.seen
    /\ lastOp' = [op EXCEPT !.fault = w.fault, !.ret = w.ret]
    /\ pre' = IF Watched(op.e) THEN [entity |-> entities[op.e], next |-> next] ELSE NoPre

\* a call that never returns leaves the host no further call
Running == lastOp.fault # "hang"

----------------------------------------------------------------------------
(* The calls of the host *)

CallAdd(e, x, r) == Running /\ Commit(Entity_add(W, e, x, r), Op("add", e, x, r, 0))

CallAppend(e, x, r) == Running /\ Commit(Entity_append(W, e, x, r), Op("append", e, x, r, 0))

CallRemove(e, classOrTag) ==
    Running /\ Commit(Entity_remove(W, e, classOrTag), Op("remove", e, classOrTag, NoClass, 0))

CallWithdraw(e, class) ==
    Running /\ Commit(Entity_withdraw(W, e, class),
                      Op("withdraw", e, ClassToken(class), NoClass, 0))

CallPick(e, x, r) == Running /\ Commit(Entity_pick(W, e, x, r), Op("pick", e, x, r, 0))

CallAddEntity(e) == Running /\ Commit(Engine_addEntity(W, e), Op("addEntity", e, None, NoClass, 0))

CallRemoveEntity(e) ==
    Running /\ Commit(Engine_removeEntity(W, e), Op("removeEntity", e, None, NoClass, 0))

\* lastOp.r is the class iterated, lastOp.x what the action picks
CallIterate(e, class, picks) ==
    Running /\ Commit(Entity_iterate(W, e, class, picks), Op("iterate", e, picks, class, 0))

CallLengthOf(e, class) ==
    Running /\ Commit(Entity_lengthOf(W, e, class),
                      Op("lengthOf", e, ClassToken(class), NoClass, 0))

\* the host adds a query once
CallAddQuery(q) ==
    /\ Running
    /\ \A i \in DOMAIN engine.queries : engine.queries[i] # q
    /\ Commit(Engine_addQuery(W, q), Op("addQuery", NoEntity, None, NoClass, q))

\* entity.get(A)!.y = v, x being the instance of A
CallSetY(x, v) ==
    Running /\ Commit([W EXCEPT !.fieldY[x] = v], Op("setY", NoEntity, x, NoClass, v))

CallInvalidate(e) ==
    Running /\ Commit(Entity_invalidate(W, e), Op("invalidate", e, None, NoClass, 0))

\* calls during which a listener of a query follows a plan; lastOp.q is the
\* query, lastOp.r what its listener does and lastOp.x to what
Planned(op, e, plan) == Op(op, e, plan.t, plan.act, plan.on[1])

CallAddEntityWith(e, plan) ==
    Running /\ Commit(Engine_addEntity([W EXCEPT !.plan = plan], e), Planned("addEntity", e, plan))

CallRemoveEntityWith(e, plan) ==
    Running /\ Commit(Engine_removeEntity([W EXCEPT !.plan = plan], e),
                      Planned("removeEntity", e, plan))

CallAddWith(e, x, plan) ==
    Running /\ Commit(Entity_add([W EXCEPT !.plan = plan], e, x, NoClass), Planned("add", e, plan))

CallRemoveWith(e, classOrTag, plan) ==
    Running /\ Commit(Entity_remove([W EXCEPT !.plan = plan], e, classOrTag),
                      Planned("remove", e, plan))

\* e.copyFrom(entity); lastOp.x is the entity copied from
CallCopyFrom(e, entity) ==
    Running /\ Commit(Entity_copyFrom(W, e, entity), Op("copyFrom", e, entity, NoClass, 0))

\* builder.contains(classOrTag); lastOp.x is what is passed, lastOp.q the builder
CallContains(b, classOrTag) ==
    Running /\ Commit(QueryBuilder_contains(W, b, classOrTag),
                      Op("contains", NoEntity, classOrTag, NoClass, b))

\* signal.connect(listener k, priority)
CallConnect(k, priority) ==
    Running /\ Commit([W EXCEPT !.entities[TestSignal.ref].onInvalidationRequested =
                                    Signal_connect(@, Handler("Host.listener", k), priority)],
                      Op("connect", NoEntity, <<"listener", k>>, NoClass, priority))

CallDisconnect(k) ==
    Running /\ Commit([W EXCEPT !.entities[TestSignal.ref].onInvalidationRequested =
                                    Signal_disconnect(@, Handler("Host.listener", k))],
                      Op("disconnect", NoEntity, <<"listener", k>>, NoClass, 0))

\* signal.emit(entity) with the listeners doing what plan says; lastOp.x is
\* the listener that acts, lastOp.q the one it disconnects
CallEmit(plan) ==
    Running /\ Commit(Signal_emit([W EXCEPT !.plan = plan], TestSignal,
                                  [entity |-> TestSignal.ref, item |-> None]),
                      Op("emit", NoEntity, <<"listener", plan.on[1]>>, plan.act,
                         IF plan.act = "none" THEN 0 ELSE plan.t))

\* the host adds a query, whether the engine has it or not
CallAddQueryAgain(q) ==
    /\ Running
    /\ Len(engine.queries) < MaxQueries
    /\ Commit(Engine_addQuery(W, q), Op("addQuery", NoEntity, None, NoClass, q))

CallRemoveQuery(q) ==
    Running /\ Commit(Engine_removeQuery(W, q), Op("removeQuery", NoEntity, None, NoClass, q))

\* lastOp.x is the system, lastOp.q the priority
CallAddSystem(s, priority) ==
    /\ Running
    /\ Len(engine.systems) < MaxSystems
    /\ Commit(Engine_addSystem(W, s, priority), Op("addSystem", NoEntity, s, NoClass, priority))

CallRemoveSystem(s) ==
    Running /\ Commit(Engine_removeSystem(W, s), Op("removeSystem", NoEntity, s, NoClass, 0))

CallRemoveAllSystems ==
    Running /\ Commit(Engine_removeAllSystems(W), Op("removeAllSystems", NoEntity, None, NoClass, 0))

\* lastOp.q is the number of entities the queries hold when the call begins,
\* lastOp.x[2] the number of systems
CallClear ==
    Running /\ Commit(Engine_clear(W),
                      Op("clear", NoEntity, <<"systems", Len(engine.systems)>>, NoClass,
                         Len(queries[1].entities) + Len(queries[2].entities)))

\* lastOp.x is does.s, lastOp.r does.act, lastOp.e does.t, lastOp.q does.p
CallUpdate(does) ==
    /\ Running
    /\ Len(engine.systems) < MaxSystems \/ does.act # "add"
    /\ Commit(Engine_update(W, does), Op("update", does.t, does.s, does.act, does.p))

\* lastOp.x is the system, lastOp.r the member read or called
CallSystemAccess(s, member) ==
    Running /\ Commit(System_access(W, s, member), Op("access", NoEntity, s, member, 0))

----------------------------------------------------------------------------
(* The instances the host creates *)

A1 == <<"A", 1>>
SubA1 == <<"SubA", 1>>
L1 == <<"L", 1>>
SubL1 == <<"SubL", 1>>
Entity1 == <<"entity", 1>>
Entity2 == <<"entity", 2>>
InstancesOf(class) == {x \in Instances : ClassOf(x) = class}

----------------------------------------------------------------------------
(* Spec: an engine with the hand-written query added, to whose signals the *)
(* host listens; the host adds an entity to it and gives the entity        *)
(* components under their own class or under a resolve class.              *)

Init == Start(Engine_addQuery(ListenToQueries(World0, {2}), 2))

Next ==
    \/ \E x \in {A1, L1} : CallAdd(Entity1, x, NoClass)
    \/ \E r \in {NoClass, "A"} : CallAdd(Entity1, SubA1, r)
    \/ \E c \in {"A", "SubA", "L"} : CallRemove(Entity1, ClassToken(c))
    \/ CallAddEntity(Entity1)
    \/ CallRemoveEntity(Entity1)

Spec == Init /\ [][Next]_vars

----------------------------------------------------------------------------
(* SpecOwn: an engine and its entities; every component is registered      *)
(* under its own class; the host adds the query built for {A, L} at any    *)
(* time and connects no listener.                                          *)

InitOwn == Start(World0)

NextOwn ==
    \/ \E e \in EntityRefs, x \in {A1, L1, TagT} : CallAdd(e, x, NoClass)
    \/ \E e \in EntityRefs : CallAppend(e, L1, NoClass)
    \/ \E e \in EntityRefs, x \in {ClassToken("A"), ClassToken("L"), TagT} : CallRemove(e, x)
    \/ \E e \in EntityRefs : CallWithdraw(e, "L")
    \/ \E e \in EntityRefs : CallPick(e, L1, NoClass)
    \/ \E e \in EntityRefs : CallAddEntity(e)
    \/ \E e \in EntityRefs : CallRemoveEntity(e)
    \/ CallAddQuery(1)

SpecOwn == InitOwn /\ [][NextOwn]_vars

----------------------------------------------------------------------------
(* SpecEntity: one entity outside any engine, whose two signals the host   *)
(* listens to, counting and keeping what they carry.                       *)

InitEntity ==
    Start(ListenToEntities(World0, {Entity1}, "Host.componentAdded", "Host.componentRemoved"))

NextEntity ==
    \/ \E x \in InstancesOf("A") \cup InstancesOf("L") : CallAdd(Entity1, x, NoClass)
    \/ \E x \in InstancesOf("L") : CallAppend(Entity1, x, NoClass)
    \/ \E c \in {"A", "L"} : CallRemove(Entity1, ClassToken(c))
    \/ CallWithdraw(Entity1, "L")
    \/ \E x \in InstancesOf("L") : CallPick(Entity1, x, NoClass)

SpecEntity == InitEntity /\ [][NextEntity]_vars

----------------------------------------------------------------------------
(* SpecSnap: one entity outside any engine; the host's listeners take a    *)
(* snapshot of it into one EntitySnapshot on every notification.           *)

InitSnap ==
    Start(ListenToEntities(World0, {Entity1}, "Host.snapshotAdded", "Host.snapshotRemoved"))

NextSnap ==
    \/ \E x \in InstancesOf("A") \cup InstancesOf("L") \cup Tags : CallAdd(Entity1, x, NoClass)
    \/ \E x \in InstancesOf("L") : CallAppend(Entity1, x, NoClass)
    \/ \E x \in {ClassToken("A"), ClassToken("L")} \cup Tags : CallRemove(Entity1, x)
    \/ CallWithdraw(Entity1, "L")
    \/ \E x \in InstancesOf("L") : CallPick(Entity1, x, NoClass)

SpecSnap == InitSnap /\ [][NextSnap]_vars

----------------------------------------------------------------------------
(* SpecChain: one entity outside any engine, whose two signals the host    *)
(* listens to; the chain of L takes instances of L and of its subclass     *)
(* under the resolve class L, and the host iterates over it.               *)

InitChain ==
    Start(ListenToEntities(World0, {Entity1}, "Host.componentAdded", "Host.componentRemoved"))

NextChain ==
    \/ \E x \in InstancesOf("L") \cup {SubL1}, r \in {"L", "A"} : CallAppend(Entity1, x, r)
    \/ \E x \in {A1, L1}, r \in {NoClass, "L"} : CallAdd(Entity1, x, r)
    \/ \E x \in {ClassToken("A"), ClassToken("L")} : CallRemove(Entity1, x)
    \/ CallWithdraw(Entity1, "L")
    \/ \E x \in InstancesOf("L") \cup {SubL1} : CallPick(Entity1, x, "L")
    \/ \E picks \in {None, ClassToken("L"), L1} : CallIterate(Entity1, "L", picks)
    \/ CallIterate(Entity1, "A", None)
    \/ \E class \in {"A", "L"} : CallLengthOf(Entity1, class)

SpecChain == InitChain /\ [][NextChain]_vars

----------------------------------------------------------------------------
(* SpecSys: an engine and the host's plain systems, whose update notes the *)
(* call and may add or remove a system; the host reads the systems'        *)
(* engine-scoped members at any time.                                      *)

System1 == <<"system", 1>>
System2 == <<"system", 2>>

InitSys == Start(World0)

NextSys ==
    \/ \E s \in PlainSystems, priority \in {1, 2} : CallAddSystem(s, priority)
    \/ \E s \in PlainSystems : CallRemoveSystem(s)
    \/ CallRemoveAllSystems
    \/ CallClear
    \/ CallUpdate(NoAct)
    \/ \E s \in PlainSystems, t \in PlainSystems :
          CallUpdate([s |-> s, act |-> "remove", t |-> t, p |-> 0])
    \/ \E s \in PlainSystems, t \in PlainSystems, priority \in {1, 2} :
          CallUpdate([s |-> s, act |-> "add", t |-> t, p |-> priority])
    \/ \E s \in PlainSystems, member \in {"engine", "sharedConfig", "dispatch"} :
          CallSystemAccess(s, member)

SpecSys == InitSys /\ [][NextSys]_vars

----------------------------------------------------------------------------
(* SpecIter: an engine, its entities and the host's IterativeSystem over   *)
(* the query of the entities that have A and no L; its updateEntity notes  *)
(* the entity and, when the host says so, removes it or the system from    *)
(* the engine, or clears the engine.                                       *)

UpdateEntityDoes(act) == [s |-> IterativeSystem1, act |-> act, t |-> NoSystem, p |-> 0]

InitIter == Start(World0)

NextIter ==
    \/ CallAddSystem(IterativeSystem1, 1)
    \/ CallRemoveSystem(IterativeSystem1)
    \/ \E e \in EntityRefs : CallAddEntity(e)
    \/ \E e \in EntityRefs : CallRemoveEntity(e)
    \/ \E e \in EntityRefs : CallAdd(e, A1, NoClass)
    \/ \E e \in EntityRefs : CallRemove(e, ClassToken("A"))
    \/ CallUpdate(NoAct)
    \/ \E act \in {"removeEntity", "removeSystem", "removeAllSystems", "clear"} :
          CallUpdate(UpdateEntityDoes(act))

SpecIter == InitIter /\ [][NextIter]_vars

----------------------------------------------------------------------------
(* SpecPool: an engine to whose two signals the host listens; the host     *)
(* adds and removes entities, gives the first of them components and      *)
(* takes them away, adds each query and a system once and clears the       *)
(* engine.                                                                 *)

InitPool == Start(ListenToEngine(World0))

NextPool ==
    \/ \E e \in EntityRefs : CallAddEntity(e)
    \/ \E e \in EntityRefs : CallRemoveEntity(e)
    \/ \E x \in {A1, L1} : CallAdd(Entity1, x, NoClass)
    \/ \E c \in {"A", "L"} : CallRemove(Entity1, ClassToken(c))
    \/ \E q \in QueryIds : CallAddQuery(q)
    \/ engine.systems = <<>> /\ CallAddSystem(System1, 1)
    \/ CallClear

SpecPool == InitPool /\ [][NextPool]_vars

----------------------------------------------------------------------------
(* SpecQueries: an engine with one entity; the host listens to the signals *)
(* of the two queries and adds and removes the queries at any time, also a *)
(* query the engine already has.                                           *)

InitQueries == Start(ListenToQueries(World0, QueryIds))

NextQueries ==
    \/ \E q \in QueryIds : CallAddQueryAgain(q)
    \/ \E q \in QueryIds : CallRemoveQuery(q)
    \/ CallAddEntity(Entity1)
    \/ CallRemoveEntity(Entity1)
    \/ \E x \in {A1, L1} : CallAdd(Entity1, x, NoClass)

SpecQueries == InitQueries /\ [][NextQueries]_vars

----------------------------------------------------------------------------
(* SpecShared: an engine whose shared config entity the host changes; the  *)
(* host adds each query once, at any time, and removes it.                 *)

InitShared == Start(World0)

NextShared ==
    \/ \E x \in {A1, L1, TagT} : CallAdd(SharedConfig, x, NoClass)
    \/ \E x \in {ClassToken("A"), ClassToken("L"), TagT} : CallRemove(SharedConfig, x)
    \/ \E q \in QueryIds : CallAddQuery(q)
    \/ \E q \in QueryIds : CallRemoveQuery(q)

SpecShared == InitShared /\ [][NextShared]_vars

----------------------------------------------------------------------------
(* SpecField: an engine with one entity; query 2 has the predicate of the  *)
(* invalidation tests, which reads the field y of the entity's A; the host *)
(* listens to the queries, writes y and calls invalidate.                  *)

InitField ==
    Start(ListenToQueries([World0 EXCEPT !.queries[2].predicate = FieldPredicate], QueryIds))

NextField ==
    \/ \E q \in QueryIds : CallAddQuery(q)
    \/ CallAddEntity(Entity1)
    \/ CallRemoveEntity(Entity1)
    \/ \E x \in {A1, L1} : CallAdd(Entity1, x, NoClass)
    \/ CallRemove(Entity1, ClassToken("A"))
    \/ \E v \in {0, 1} : CallSetY(A1, v)
    \/ CallInvalidate(Entity1)

SpecField == InitField /\ [][NextField]_vars

----------------------------------------------------------------------------
(* SpecSignal: one signal, to which the host connects its listeners with a *)
(* priority, from which it disconnects them and which it emits; a listener *)
(* may disconnect itself or another one while the signal is emitted.       *)

Listeners == 1..NumListeners

InitSignal == Start(World0)

NextSignal ==
    \/ \E k \in Listeners, priority \in {0, 1} : CallConnect(k, priority)
    \/ \E k \in Listeners : CallDisconnect(k)
    \/ CallEmit(NoPlan)
    \/ \E k \in Listeners, t \in Listeners :
          CallEmit([on |-> <<k, "listener">>, act |-> "disconnect", t |-> t])

SpecSignal == InitSignal /\ [][NextSignal]_vars

----------------------------------------------------------------------------
(* SpecReentrant: an engine with the hand-written query (has A, has no L)   *)
(* added and one entity; the host's listeners of the query change the      *)
(* entity, or remove it from the engine, while they are notified.          *)

Plans ==
    {[on |-> <<2, kind>>, act |-> act, t |-> <<Entity1, x>>] :
        kind \in {"added", "removed"},
        act \in {"add", "remove"},
        x \in {ClassToken("A"), ClassToken("L")}}
    \cup {[on |-> <<2, kind>>, act |-> "removeEntity", t |-> <<Entity1, None>>] :
              kind \in {"added", "removed"}}

\* what add and remove are given for the class of a plan: an instance, a class
PlanInput(plan) ==
    IF plan.act = "add"
    THEN [plan EXCEPT !.t[2] = IF plan.t[2] = ClassToken("A") THEN A1 ELSE L1]
    ELSE plan

InitReentrant == Start(Engine_addQuery(ListenToQueries(World0, {2}), 2))

NextReentrant ==
    \/ \E plan \in Plans : CallAddEntityWith(Entity1, PlanInput(plan))
    \/ \E plan \in Plans : CallRemoveEntityWith(Entity1, PlanInput(plan))
    \/ \E x \in {A1, L1}, plan \in Plans : CallAddWith(Entity1, x, PlanInput(plan))
    \/ \E x \in {ClassToken("A"), ClassToken("L")}, plan \in Plans :
          CallRemoveWith(Entity1, x, PlanInput(plan))

SpecReentrant == InitReentrant /\ [][NextReentrant]_vars

----------------------------------------------------------------------------
(* SpecReplace: an engine with the hand-written query (has A, has no L)    *)
(* added, to whose signals the host listens; the host adds the two         *)
(* entities to the engine and gives them instances of A.                   *)

InitReplace == Start(Engine_addQuery(ListenToQueries(World0, {2}), 2))

NextReplace ==
    \/ \E e \in {Entity1, Entity2}, x \in InstancesOf("A") : CallAdd(e, x, NoClass)
    \/ \E e \in {Entity1, Entity2} : CallAddEntity(e)
    \/ \E e \in {Entity1, Entity2} : CallRemoveEntity(e)

SpecReplace == InitReplace /\ [][NextReplace]_vars

----------------------------------------------------------------------------
(* SpecCopy: two entities outside any engine; the host appends to their    *)
(* chains of L, picks from them, removes them, and copies the first entity *)
(* into the second.                                                        *)

InitCopy == Start(World0)

NextCopy ==
    \/ \E e \in {Entity1, Entity2}, x \in InstancesOf("L") : CallAppend(e, x, NoClass)
    \/ \E e \in {Entity1, Entity2}, x \in InstancesOf("L") : CallPick(e, x, NoClass)
    \/ \E e \in {Entity1, Entity2} : CallRemove(e, ClassToken("L"))
    \/ CallCopyFrom(Entity2, Entity1)

SpecCopy == InitCopy /\ [][NextCopy]_vars

----------------------------------------------------------------------------
(* SpecBuilder: a second QueryBuilder, from which the host has built query *)
(* 2 before passing anything to contains, and one entity outside any       *)
(* engine; the host goes on calling contains and changes the entity.       *)

InitBuilder == Start([World0 EXCEPT !.queries[2].predicate = BuiltPredicate(2)])

NextBuilder ==
    \/ \E x \in {ClassToken("A"), ClassToken("L"), TagT} : CallContains(2, x)
    \/ \E x \in {A1, L1, TagT} : CallAdd(Entity1, x, NoClass)
    \/ \E x \in {ClassToken("A"), ClassToken("L"), TagT} : CallRemove(Entity1, x)

SpecBuilder == InitBuilder /\ [][NextBuilder]_vars

----------------------------------------------------------------------------
(* What the properties read *)

Returned == lastOp.fault = "none"

\* the world as it was when the last call began, for a watched entity
Before == [W EXCEPT !.entities[lastOp.e] = pre.entity, !.next = pre.next]

ChainBefore == Entity_nodes(Before, lastOp.e, ClassOf(lastOp.x))
ChainNow == Entity_nodes(W, lastOp.e, ClassOf(lastOp.x))

\* the class the last call named or resolved to, and its chain before and now
OpClass == IF lastOp.r # NoClass THEN lastOp.r ELSE ClassOf(lastOp.x)
OpChainBefore == Entity_nodes(Before, lastOp.e, OpClass)
OpChainNow == Entity_nodes(W, lastOp.e, OpClass)

Range(seq) == {seq[i] : i \in DOMAIN seq}
Count(seq, x) == Cardinality({i \in DOMAIN seq : seq[i] = x})

\* the notifications of kind about items, in order, as the host's listener logs them
Notes(kind, items) ==
    [i \in DOMAIN items |-> [kind |-> kind, entity |-> lastOp.e, item |-> items[i]]]

\* has(class) and has(item's own class or tag) on what a listener read
ViewHasClass(view, class) ==
    componentIds[class] # 0 /\ view.components[componentIds[class]] # None

ViewHas(view, item) ==
    IF isTag(item) THEN item \in view.tags ELSE ViewHasClass(view, ClassOf(item))

Registered(q) == IndexOf(engine.queries, q) # 0

----------------------------------------------------------------------------
(* C1 *)

----------------------------------------------------------------------------
(* C2 *)

\* C2: after every add or remove on an engine entity, the entity is in the query
\* of predicate has(A) and not has(L) if and only if the predicate is true of it.
C2_CustomQueryFollowsPredicate ==
    (lastOp.op \in {"add", "remove"} /\ Returned /\ lastOp.e \in engine.entityMap) =>
        (Query_has(W, 2, lastOp.e) <=> Query_predicate(W, 2, lastOp.e))

----------------------------------------------------------------------------
(* C3 *)

\* C3: an engine entity is in a query that requires A only while has(A) is true
\* of it, also when A was the resolve class of an add: it has left the query when
\* remove(A) ends.
C3_ResolveClassCountsAsA ==
    (Returned /\ lastOp.e \in engine.entityMap) =>
        (Query_has(W, 2, lastOp.e) => Entity_hasComponent(W, lastOp.e, "A"))

----------------------------------------------------------------------------
(* C4 *)

\* previous and current differ in item and in nothing else
DiffersOnlyIn(previous, current, item) ==
    IF isTag(item)
    THEN /\ previous.components = current.components
         /\ (previous.tags \ current.tags) \cup (current.tags \ previous.tags) = {item}
    ELSE /\ previous.tags = current.tags
         /\ \E id \in Ids :
               /\ {previous.components[id], current.components[id]} = {None, item}
               /\ \A other \in Ids \ {id} :
                     previous.components[other] = current.components[other]

\* C4: in every notification a query delivers about an added or removed item,
\* snapshot.previous differs from snapshot.current in that item and agrees with
\* it on every other component type and tag.
C4_PreviousIsStateBefore ==
    \A i \in DOMAIN seen :
        (seen[i].q # 0 /\ seen[i].item # None) =>
            DiffersOnlyIn(seen[i].previous, seen[i].current, seen[i].item)

----------------------------------------------------------------------------
(* C5 *)

----------------------------------------------------------------------------
(* C6 *)

\* C6: the notification a query delivers for a component added under the resolve
\* class A shows A absent in previous and present in current; the one for its
\* removal shows A present in previous and absent in current.
C6_SnapshotUnderResolveClass ==
    \A i \in DOMAIN seen :
        /\ (/\ seen[i].q # 0 /\ seen[i].kind = "added"
            /\ lastOp.op = "add" /\ lastOp.r = "A" /\ seen[i].item = lastOp.x) =>
               /\ ~ViewHasClass(seen[i].previous, "A")
               /\ ViewHasClass(seen[i].current, "A")
        /\ (/\ seen[i].q # 0 /\ seen[i].kind = "removed"
            /\ lastOp.op = "remove" /\ lastOp.x = ClassToken("A")
            /\ seen[i].item = SubA1) =>
               /\ ViewHasClass(seen[i].previous, "A")
               /\ ~ViewHasClass(seen[i].current, "A")

----------------------------------------------------------------------------
(* C7 *)

\* C7: add of a second, distinct instance of the plain class A notifies
\* 'removed' with the old instance, then 'added' with the new one, once each,
\* and leaves the new instance installed; add of the installed instance notifies
\* nothing and changes nothing.
C7_ReplaceNotifiesRemovedThenAdded ==
    (lastOp.op = "add" /\ ClassOf(lastOp.x) = "A") =>
        /\ Entity_get(Before, lastOp.e, "A") \notin {None, lastOp.x} =>
              /\ Returned
              /\ log = Notes("removed", <<Entity_get(Before, lastOp.e, "A")>>)
                       \o Notes("added", <<lastOp.x>>)
              /\ Entity_get(W, lastOp.e, "A") = lastOp.x
        /\ Entity_get(Before, lastOp.e, "A") = lastOp.x =>
              /\ Returned
              /\ log = <<>>
              /\ entities[lastOp.e] = pre.entity
              /\ next = pre.next

\* a second, distinct instance has just been added
C7_Witness ==
    /\ lastOp.op = "add" /\ ClassOf(lastOp.x) = "A" /\ Returned
    /\ Entity_get(Before, lastOp.e, "A") \notin {None, lastOp.x}
    /\ Len(log) = 2
    /\ Entity_get(W, lastOp.e, "A") = lastOp.x

----------------------------------------------------------------------------
(* C8 *)

\* C8: when add(x) of a linked instance x has returned, 'removed' was notified
\* once for every instance that was in the chain, in order, then 'added' once for
\* x, and the chain is x alone: lengthOf is 1.
C8_AddLeavesChainOfOne ==
    (lastOp.op = "add" /\ isLinkedComponent(lastOp.x) /\ Returned) =>
        /\ log = Notes("removed", ChainBefore.nodes) \o Notes("added", <<lastOp.x>>)
        /\ ChainNow.nodes = <<lastOp.x>>
        /\ ~ChainNow.cyclic

----------------------------------------------------------------------------
(* C9 *)

----------------------------------------------------------------------------
(* C10 *)

\* C10, for N = 1 and the withdraws after the last: append of x to an entity that
\* holds no L instance notifies 'added' once and makes lengthOf(L) 1, iterate
\* visiting x alone; withdraw on an entity that holds no L instance returns
\* not-found and leaves has(L) false.
C10_AppendThenWithdrawInOrder ==
    /\ (lastOp.op = "append" /\ Entity_get(Before, lastOp.e, "L") = None) =>
          /\ Returned
          /\ log = Notes("added", <<lastOp.x>>)
          /\ ChainNow.nodes = <<lastOp.x>>
          /\ ~ChainNow.cyclic
    /\ (lastOp.op = "withdraw" /\ Entity_get(Before, lastOp.e, "L") = None) =>
          /\ Returned
          /\ lastOp.ret = None
          /\ ~Entity_has(W, lastOp.e, ClassToken("L"))

----------------------------------------------------------------------------
(* C11 *)

\* remove(L) has returned, having notified 'removed' once for every instance of
\* the chain, and the entity has no instance of L
RemovedWholeChain ==
    (lastOp.op = "remove" /\ lastOp.x = ClassToken("L")) =>
        /\ Returned
        /\ log = Notes("removed", OpChainBefore.nodes)
        /\ ~Entity_has(W, lastOp.e, ClassToken("L"))
        /\ OpChainNow.nodes = <<>>

\* the append that follows a remove(L) builds a chain of the appended instance alone
AppendAfterRemove ==
    (/\ lastOp.op = "remove" /\ lastOp.x = ClassToken("L") /\ Returned
     /\ lastOp'.op = "append" /\ lastOp'.r = "L" /\ lastOp'.fault = "none") =>
        /\ OpChainNow'.nodes = <<lastOp'.x>>
        /\ ~OpChainNow'.cyclic

\* C11: remove(L) removes every instance of the chain, notifying 'removed' once
\* for each, and leaves has(L) false and lengthOf(L) 0; a chain built afterwards
\* by append holds only what was appended after the remove.
C11_RemoveClearsChain == [][RemovedWholeChain' /\ AppendAfterRemove]_vars

----------------------------------------------------------------------------
(* C12 *)

Without(seq, x) == SelectSeq(seq, LAMBDA y : y # x)

\* C12: pick(x) on a chain that holds x removes x alone, wherever it is, keeps
\* the other instances in their order and notifies 'removed' once, for x; on a
\* chain that does not hold x it returns not-found, changes nothing and notifies
\* nothing.
C12_PickRemovesOnlyThat ==
    lastOp.op = "pick" =>
        /\ (lastOp.x \in Range(OpChainBefore.nodes) /\ ~OpChainBefore.cyclic) =>
              /\ Returned
              /\ lastOp.ret = lastOp.x
              /\ log = Notes("removed", <<lastOp.x>>)
              /\ OpChainNow.nodes = Without(OpChainBefore.nodes, lastOp.x)
              /\ ~OpChainNow.cyclic
        /\ lastOp.x \notin Range(OpChainBefore.nodes) =>
              /\ Returned
              /\ lastOp.ret = None
              /\ log = <<>>
              /\ entities[lastOp.e] = pre.entity
              /\ next = pre.next

----------------------------------------------------------------------------
(* C13 *)

\* the chains of every entity and every component type that hold x
ChainsHolding(x) ==
    {<<e, id>> \in EntityRefs \X Ids :
        x \in Range(LinkedComponentList_nodes(entities[e].linkedComponents[id], next).nodes)}

\* C13: a linked instance is in at most one chain, over all entities and all
\* component types.
C13_InstanceInOneChain ==
    \A x \in LinkedInstances : Cardinality(ChainsHolding(x)) <= 1

----------------------------------------------------------------------------
(* C14 *)

\* C14: append of an instance that is in the entity's chain for the class,
\* wherever in it, throws, leaves the chain, the slot and the tags as they were
\* and notifies nothing.
C14_AppendTwiceThrows ==
    (lastOp.op = "append" /\ lastOp.x \in Range(OpChainBefore.nodes)) =>
        /\ lastOp.fault = "throw"
        /\ log = <<>>
        /\ entities[lastOp.e] = pre.entity
        /\ next = pre.next

\* the instance in the middle of a chain of three was appended again
C14_Witness ==
    /\ lastOp.op = "append" /\ lastOp.fault = "throw"
    /\ Len(OpChainBefore.nodes) = Cardinality(LinkedInstances)
    /\ ~OpChainBefore.cyclic
    /\ OpChainBefore.nodes[Len(OpChainBefore.nodes) - 1] = lastOp.x
    /\ OpChainNow = OpChainBefore

----------------------------------------------------------------------------
(* C15 *)

\* the instances the action of the last iterate was called with, in call order
Visited == SelectSeq(log, LAMBDA n : n.kind = "visited")

\* C15: iterate over a chain calls the action once for each instance of the
\* chain, in chain order, and returns, whether the action picks nothing, the
\* instance it is called with each time, or one of the instances.
C15_IterateVisitsEachOnce ==
    (lastOp.op = "iterate" /\ lastOp.r = "L") =>
        /\ Returned
        /\ Visited = Notes("visited", OpChainBefore.nodes)

\* the same over a chain that is finite when iterate is called
C15_IterateFiniteChain ==
    (lastOp.op = "iterate" /\ lastOp.r = "L" /\ ~OpChainBefore.cyclic) =>
        /\ Returned
        /\ Visited = Notes("visited", OpChainBefore.nodes)

----------------------------------------------------------------------------
(* C16 *)

\* C16: for a class that is not linked, iterate calls the action once with the
\* instance the entity has and lengthOf is 1; with no instance the action is
\* not called and lengthOf is 0.
C16_IteratePlainComponent ==
    /\ (lastOp.op = "iterate" /\ lastOp.r = "A") =>
          /\ Returned
          /\ log = Notes("visited", IF Entity_get(Before, lastOp.e, "A") = None THEN <<>>
                                    ELSE <<Entity_get(Before, lastOp.e, "A")>>)
    /\ (lastOp.op = "lengthOf" /\ lastOp.x = ClassToken("A")) =>
          /\ Returned
          /\ lastOp.ret = <<"count", IF Entity_get(Before, lastOp.e, "A") = None THEN 0 ELSE 1>>

----------------------------------------------------------------------------
(* C17 *)

\* C17: an instance that was taken out of a chain has no link left into it:
\* appended again to a finite chain that does not hold it, it makes the chain
\* the instances that were there, in their order, and then the instance, once.
C17_ReappendMakesFiniteChain ==
    (/\ lastOp.op = "append" /\ lastOp.r = "L"
     /\ ~OpChainBefore.cyclic
     /\ lastOp.x \notin Range(OpChainBefore.nodes)) =>
        /\ Returned
        /\ OpChainNow.nodes = Append(OpChainBefore.nodes, lastOp.x)
        /\ ~OpChainNow.cyclic

----------------------------------------------------------------------------
(* C18 *)

\* C18: add and append with a resolve class the instance is no instance of
\* throw, leave the entity's components, chains and tags as they were and
\* notify nothing.
C18_NotAncestorThrows ==
    (/\ lastOp.op \in {"add", "append"}
     /\ lastOp.r # NoClass
     /\ ~instanceOf(lastOp.x, lastOp.r)) =>
        /\ lastOp.fault = "throw"
        /\ log = <<>>
        /\ entities[lastOp.e] = pre.entity
        /\ next = pre.next

\* add(a, L) threw on an entity that holds a chain of L
C18_Witness ==
    /\ lastOp.op = "add" /\ lastOp.x = A1 /\ lastOp.r = "L"
    /\ lastOp.fault = "throw"
    /\ Entity_has(W, lastOp.e, ClassToken("L"))
    /\ entities[lastOp.e] = pre.entity

----------------------------------------------------------------------------
(* C19 *)

\* what the host's listeners were called with during the last call
Notified == [i \in DOMAIN seen |-> <<seen[i].kind, seen[i].item>>]

\* C19: add of a tag the entity has and remove of a tag it does not have
\* change nothing and notify nothing; add of a tag it does not have notifies
\* 'added' once and remove of a tag it has notifies 'removed' once.
C19_TagNotifiedOnChangeOnly ==
    (lastOp.op \in {"add", "remove"} /\ isTag(lastOp.x)) =>
        /\ Returned
        /\ entities[lastOp.e].components = pre.entity.components
        /\ entities[lastOp.e].linkedComponents = pre.entity.linkedComponents
        /\ (lastOp.op = "add" /\ lastOp.x \in pre.entity.tags) =>
              entities[lastOp.e] = pre.entity /\ Notified = <<>>
        /\ (lastOp.op = "remove" /\ lastOp.x \notin pre.entity.tags) =>
              entities[lastOp.e] = pre.entity /\ Notified = <<>>
        /\ (lastOp.op = "add" /\ lastOp.x \notin pre.entity.tags) =>
              /\ entities[lastOp.e].tags = pre.entity.tags \cup {lastOp.x}
              /\ Notified = << <<"added", lastOp.x>> >>
        /\ (lastOp.op = "remove" /\ lastOp.x \in pre.entity.tags) =>
              /\ entities[lastOp.e].tags = pre.entity.tags \ {lastOp.x}
              /\ Notified = << <<"removed", lastOp.x>> >>

\* a tag the entity has was added again, with components on the entity
C19_Witness ==
    /\ lastOp.op = "add" /\ isTag(lastOp.x)
    /\ lastOp.x \in pre.entity.tags
    /\ Entity_has(W, lastOp.e, ClassToken("A"))
    /\ seen = <<>>

----------------------------------------------------------------------------
(* C20 *)

\* no two classes that have an id have the same id
IdsInjective ==
    \A c, d \in Classes :
        (c # d /\ componentIds[c] # 0 /\ componentIds[d] # 0) =>
            componentIds[c] # componentIds[d]

\* a class that has an id keeps it, and remove(class), which looks the id up
\* without creating it, returns undefined for a class without id and gives
\* no class an id
IdsStable ==
    /\ \A c \in Classes : componentIds[c] # 0 => componentIds'[c] = componentIds[c]
    /\ (lastOp'.op = "remove" /\ componentIds[ClassOf(lastOp'.x)] = 0) =>
          /\ lastOp'.fault = "none" /\ lastOp'.ret = None
          /\ componentIds' = componentIds
          /\ componentClassId' = componentClassId

\* C20: component ids are injective and stable: two classes, a subclass and
\* its parent too, never have the same id, a class keeps the id it has, and
\* a lookup without creation for a class without id gives undefined and
\* assigns nothing.
C20_ComponentIdsInjectiveStable == []IdsInjective /\ [][IdsStable]_vars

\* the subclass got its id after its parent and L had theirs
C20_Witness ==
    /\ lastOp.op = "add" /\ lastOp.x = SubA1 /\ lastOp.r = NoClass
    /\ componentIds["A"] # 0 /\ componentIds["L"] # 0
    /\ componentIds["SubA"] \notin {0, componentIds["A"], componentIds["L"]}

----------------------------------------------------------------------------
(* C22 *)

PriorityOf(s) == systems[s].priority

SystemsSorted ==
    \A i, j \in DOMAIN engine.systems :
        i < j => PriorityOf(engine.systems[i]) <= PriorityOf(engine.systems[j])

\* addSystem puts the system behind the systems of its priority or less and
\* before those of more, and removeSystem takes one system out; the others
\* keep their order
SystemsKeepOrder ==
    /\ (lastOp'.op = "addSystem" /\ lastOp'.fault = "none") =>
          \E k \in 0..Len(engine.systems) :
              /\ engine'.systems = InsertAt(engine.systems, k + 1, lastOp'.x)
              /\ \A i \in 1..k : PriorityOf(engine.systems[i]) <= lastOp'.q
              /\ \A i \in (k + 1)..Len(engine.systems) :
                     PriorityOf(engine.systems[i]) > lastOp'.q
    /\ (lastOp'.op = "removeSystem" /\ lastOp'.fault = "none") =>
          \/ /\ lastOp'.x \notin Range(engine.systems)
             /\ engine'.systems = engine.systems
          \/ \E k \in DOMAIN engine.systems :
                /\ engine.systems[k] = lastOp'.x
                /\ engine'.systems = Splice(engine.systems, k)

\* C22: after any addSystem and removeSystem calls engine.systems is in order
\* of priority, not decreasing, and systems of one priority are in the order
\* in which they were added.
C22_SystemsInPriorityOrder == []SystemsSorted /\ [][SystemsKeepOrder]_vars

----------------------------------------------------------------------------
(* C23 *)

\* how often update was called on system s during the last call
UpdatesOf(s) == Cardinality({i \in DOMAIN log : log[i].kind = "update" /\ log[i].item = s})

\* engine.update, begun with every system once in engine.systems and adding no
\* system that is in it, calls update once on every system that is in
\* engine.systems before and after it, on no system twice, and in the order of
\* the priorities
UpdatesEachOnce ==
    (/\ lastOp'.op = "update"
     /\ \A i, j \in DOMAIN engine.systems : engine.systems[i] = engine.systems[j] => i = j
     /\ lastOp'.r = "add" => lastOp'.e \notin Range(engine.systems)) =>
        /\ lastOp'.fault = "none"
        /\ \A s \in PlainSystems :
              /\ UpdatesOf(s)' <= 1
              /\ (s \in Range(engine.systems) /\ s \in Range(engine'.systems)) =>
                    UpdatesOf(s)' = 1
        /\ \A i, j \in DOMAIN log' :
              i < j => systems'[log'[i].item].priority <= systems'[log'[j].item].priority

\* C23: engine.update calls update exactly once on every system registered
\* during the whole call, in ascending order of priority, and on no system
\* twice, also when a system adds or removes systems, itself too, in its update.
C23_UpdateCallsEachSystemOnce == [][UpdatesEachOnce]_vars

----------------------------------------------------------------------------
(* C29 *)

\* C29: get engine(), get sharedConfig() and dispatch() of a system that is
\* not in the engine's systems throw: before the system is added, and after
\* removeSystem, removeAllSystems or clear removed it.
C29_DetachedSystemThrows ==
    (lastOp.op = "access" /\ lastOp.x \notin Range(engine.systems)) =>
        lastOp.fault = "throw"

----------------------------------------------------------------------------
(* C30 *)

\* how often updateEntity was called with entity e during the last call
UpdateEntityCalls(e) ==
    Cardinality({i \in DOMAIN log : log[i].kind = "updateEntity" /\ log[i].entity = e})

RemovingPass ==
    (/\ lastOp'.op = "update" /\ lastOp'.r = "removeEntity"
     /\ Count(engine.systems, IterativeSystem1) = 1
     /\ ~systems[IterativeSystem1].removed) =>
        /\ lastOp'.fault = "none"
        /\ \A e \in Range(queries[SystemQuery(IterativeSystem1)].entities) :
              UpdateEntityCalls(e)' = 1

\* C30: an update of the engine in which the IterativeSystem (once in the
\* engine, never removed from it before) removes every entity it visits from
\* the engine calls updateEntity exactly once for every entity that was in
\* the system's query when the update began.
C30_RemovingCurrentSkipsNone == [][RemovingPass]_vars

----------------------------------------------------------------------------
(* C21 *)

\* the engine's notifications of the last call, as the host's listeners noted them
EngineNotes == SelectSeq(log, LAMBDA n : n.kind \in {"entityAdded", "entityRemoved"})

PoolHoldsOnce ==
    /\ \A e \in EntityRefs : Count(engine.entities, e) <= 1
    /\ Range(engine.entities) = engine.entityMap

PoolCalls ==
    /\ (lastOp'.op = "addEntity" /\ lastOp'.e \in engine.entityMap) =>
          /\ engine' = engine /\ queries' = queries /\ entities' = entities
          /\ log' = <<>> /\ seen' = <<>> /\ lastOp'.fault = "none"
    /\ (lastOp'.op = "removeEntity" /\ lastOp'.e \notin engine.entityMap) =>
          /\ engine' = engine /\ queries' = queries /\ entities' = entities
          /\ log' = <<>> /\ seen' = <<>> /\ lastOp'.fault = "none"
    /\ (lastOp'.op = "addEntity" /\ lastOp'.e \notin engine.entityMap) =>
          /\ engine'.entities = Append(engine.entities, lastOp'.e)
          /\ EngineNotes' = <<[kind |-> "entityAdded", entity |-> lastOp'.e, item |-> None]>>
    /\ (lastOp'.op = "removeEntity" /\ lastOp'.e \in engine.entityMap) =>
          /\ engine'.entityMap = engine.entityMap \ {lastOp'.e}
          /\ EngineNotes' = <<[kind |-> "entityRemoved", entity |-> lastOp'.e, item |-> None]>>
    /\ lastOp'.op \in {"add", "remove", "addQuery"} =>
          /\ EngineNotes' = <<>>
          /\ engine'.entities = engine.entities

\* C21: addEntity of an entity in the pool and removeEntity of one not in it
\* change nothing and notify nobody; the pool holds an entity at most once;
\* the engine's 'entity added' fires once when addEntity adds an entity and
\* 'entity removed' once when removeEntity removes one, and not otherwise.
C21_PoolIdempotent == []PoolHoldsOnce /\ [][PoolCalls]_vars

\* addEntity was called for an entity that is in the pool, with another
C21_Witness ==
    /\ lastOp.op = "addEntity" /\ log = <<>>
    /\ Len(engine.entities) = NumEntities

----------------------------------------------------------------------------
(* C27 *)

EngineHandlers == {"Engine.onComponentAdded", "Engine.onComponentRemoved",
                   "Engine.onInvalidationRequested"}

\* the handlers the engine has on the signals of entity e
EngineConnections(e) ==
    {h \in Range(entities[e].onComponentAdded) \cup Range(entities[e].onComponentRemoved)
           \cup Range(entities[e].onInvalidationRequested) : h.fn \in EngineHandlers}

\* the handlers queries have on the engine's signals
QueryConnections ==
    {h \in Range(engine.onEntityAdded) \cup Range(engine.onEntityRemoved) :
        h.fn \in {"Query.entityAdded", "Query.entityRemoved"}}

ClearedAll ==
    lastOp.op = "clear" =>
        /\ lastOp.fault = "none"
        /\ engine.entities = <<>> /\ engine.entityMap = {}
        /\ engine.systems = <<>> /\ engine.queries = <<>>
        /\ \A q \in QueryIds : queries[q].entities = <<>>
        /\ EngineNotes = <<>>
        /\ QueryConnections = {}
        /\ \A e \in EntityRefs : EngineConnections(e) = {}

\* a query that is not in engine.queries holds no entity, whatever the host
\* did after the query left the engine
UnregisteredStaysEmpty ==
    \A q \in QueryIds : ~Registered(q) => queries[q].entities = <<>>

\* C27: when clear returns, the engine has no entity, system or query, every
\* query is empty, the engine's 'entity removed' was not fired, and neither
\* the engine nor a query is connected to a signal any more: whatever the
\* host does to the entities afterwards, a query stays empty until it is
\* added again.
C27_ClearLeavesNothing == ClearedAll /\ UnregisteredStaysEmpty

\* clear was called on an engine with a system and a query holding entities
C27_Witness ==
    /\ lastOp.op = "clear" /\ lastOp.q > 0
    /\ lastOp.x[2] > 0

----------------------------------------------------------------------------
(* C24 *)

EntityCalls == {"add", "remove", "append", "withdraw", "pick", "addEntity", "removeEntity"}

\* C24: when a call that changes an entity of the engine, adds it or removes
\* it has returned, the queries it notified (each once) were notified in the
\* order in which engine.queries holds them, the order of their addQuery.
C24_NotifiedInRegistrationOrder ==
    (/\ lastOp.op \in EntityCalls
     /\ \A i, j \in DOMAIN seen : seen[i].q = seen[j].q => i = j) =>
        \A i, j \in DOMAIN seen :
            i < j => IndexOf(engine.queries, seen[i].q) < IndexOf(engine.queries, seen[j].q)

----------------------------------------------------------------------------
(* C26 *)

RemovedIsEmpty ==
    (lastOp.op = "removeQuery" /\ lastOp.fault = "none") =>
        queries[lastOp.q].entities = <<>>

\* the call after removeQuery(q), when it is a call on an entity or adds or
\* removes one, leaves q empty and fires neither of q's signals
RemovedNotUpdated ==
    (lastOp.op = "removeQuery" /\ lastOp'.op \in EntityCalls) =>
        /\ queries'[lastOp.q].entities = <<>>
        /\ \A i \in DOMAIN seen' : seen'[i].q # lastOp.q

\* C26: when removeQuery(q) has returned, q is empty, and the host's next
\* call on an entity (add, remove, addEntity, removeEntity) puts no entity
\* into q and fires none of q's notifications, whatever addQuery and
\* removeQuery calls came before, repeated addQuery(q) too.
C26_RemovedQueryNotUpdated == []RemovedIsEmpty /\ [][RemovedNotUpdated]_vars

----------------------------------------------------------------------------
(* C28 *)

\* C28: the shared config entity is in a query of the engine exactly when
\* the query's predicate holds for it, after every change of the entity and
\* after every addQuery.
C28_SharedConfigInQueries ==
    \A q \in QueryIds :
        Registered(q) => (Query_has(W, q, SharedConfig) <=> Query_predicate(W, q, SharedConfig))

----------------------------------------------------------------------------
(* C25 *)

\* the notifications of query q during the last call
NotifiedBy(q) == SelectSeq(seen, LAMBDA n : n.q = q)

InvalidateSettles ==
    /\ lastOp'.op = "setY" => (queries' = queries /\ seen' = <<>>)
    /\ (lastOp'.op = "invalidate" /\ lastOp'.e \in engine.entityMap) =>
          /\ lastOp'.fault = "none"
          /\ \A q \in Range(engine.queries) :
                /\ Query_has(W', q, lastOp'.e) <=> Query_predicate(W', q, lastOp'.e)
                /\ (Query_has(W', q, lastOp'.e) = Query_has(W, q, lastOp'.e)) =>
                      NotifiedBy(q)' = <<>>
                /\ (Query_has(W', q, lastOp'.e) # Query_has(W, q, lastOp'.e)) =>
                      /\ Len(NotifiedBy(q)') = 1
                      /\ NotifiedBy(q)'[1].kind =
                            IF Query_has(W', q, lastOp'.e) THEN "added" ELSE "removed"

\* C25: writing a field of a component changes no query and notifies nobody;
\* when invalidate() of an entity of the engine returns, the entity is in a
\* query of the engine exactly when the query's predicate holds for it, and
\* 'entity added' or 'entity removed' was fired once for each query that the
\* entity entered or left, and for no other.
C25_InvalidateSettlesMembership == [][InvalidateSettles]_vars

\* invalidate took the entity out of the query that reads the field
C25_Witness ==
    /\ lastOp.op = "invalidate"
    /\ Len(seen) = 1 /\ seen[1].q = 2 /\ seen[1].kind = "removed"
    /\ fieldY[A1] # 0

----------------------------------------------------------------------------
(* C31 *)

PlainPass ==
    (/\ lastOp'.op = "update" /\ lastOp'.r = "none"
     /\ Count(engine.systems, IterativeSystem1) = 1) =>
        /\ lastOp'.fault = "none"
        /\ \A e \in Range(queries[SystemQuery(IterativeSystem1)].entities) :
              UpdateEntityCalls(e)' = 1

\* C31: an update of the engine that has the IterativeSystem (once) calls
\* updateEntity once for every entity of the system's query, whether the
\* system was added for the first time or removed and added again.
C31_ReaddedSystemIterates == [][PlainPass]_vars

----------------------------------------------------------------------------
(* C32 *)

RemovesSystem == {"removeSystem", "removeAllSystems", "clear"}

\* the calls of updateEntity during the last call
UpdateEntityNotes == SelectSeq(log, LAMBDA n : n.kind = "updateEntity")

SelfRemovingPass ==
    (lastOp'.op = "update" /\ lastOp'.r \in RemovesSystem) =>
        /\ lastOp'.fault = "none"
        /\ Len(UpdateEntityNotes') <= 1
        /\ (/\ IterativeSystem1 \in Range(engine.systems)
            /\ ~systems[IterativeSystem1].removed
            /\ queries[SystemQuery(IterativeSystem1)].entities # <<>>) =>
               /\ Len(UpdateEntityNotes') = 1
               /\ UpdateEntityNotes'[1].entity =
                      queries[SystemQuery(IterativeSystem1)].entities[1]

\* C32: when updateEntity of the IterativeSystem removes the system from the
\* engine, by removeSystem, removeAllSystems or clear, updateEntity is called
\* for the first entity of the query and for no further entity in that update.
C32_RemovedSystemStopsPass == [][SelfRemovingPass]_vars

\* the system removed itself while every entity was in the engine with an A,
\* so in its query
C32_Witness ==
    /\ lastOp.op = "update" /\ lastOp.r = "removeSystem"
    /\ Len(UpdateEntityNotes) = 1
    /\ Len(engine.entities) = NumEntities
    /\ \A e \in EntityRefs : Entity_has(W, e, ClassToken("A"))
    /\ systems[IterativeSystem1].removed

----------------------------------------------------------------------------
(* C33 *)

\* the listeners connected to the signal, in the order of its handlers
Connected == [i \in DOMAIN entities[TestSignal.ref].onInvalidationRequested |->
                 entities[TestSignal.ref].onInvalidationRequested[i].q]

\* how often listener k was called during the last call
HandledBy(k) ==
    Cardinality({i \in DOMAIN log : log[i].kind = "handled" /\ log[i].item = <<"listener", k>>})

ConnectOnce ==
    /\ \A k \in Listeners : Count(Connected, k) <= 1
    /\ (lastOp.op = "emit" /\ lastOp.r = "none") =>
          \A k \in Listeners : HandledBy(k) = Count(Connected, k)

ConnectDisconnect ==
    /\ (lastOp'.op = "connect" /\ lastOp'.x[2] \in Range(Connected)) =>
          /\ Range(Connected') = Range(Connected)
          /\ Len(Connected') = Len(Connected)
    /\ (lastOp'.op = "connect" /\ lastOp'.x[2] \notin Range(Connected)) =>
          /\ Range(Connected') = Range(Connected) \cup {lastOp'.x[2]}
          /\ Len(Connected') = Len(Connected) + 1
    /\ (lastOp'.op = "disconnect" /\ lastOp'.x[2] \notin Range(Connected)) =>
          entities' = entities

\* C33: connecting a handler that is connected does not add it again: the
\* signal holds every handler at most once and an emit calls each connected
\* handler once; disconnecting a handler that is not connected leaves the
\* handlers and their order as they are.
C33_ConnectOnceDisconnectSafe == []ConnectOnce /\ [][ConnectDisconnect]_vars

\* a connected listener was connected again, and another one is connected
C33_Witness ==
    /\ lastOp.op = "connect" /\ Len(Connected) = 2
    /\ lastOp.x[2] = Connected[1]
    /\ entities[TestSignal.ref].onInvalidationRequested[1].priority = lastOp.q

----------------------------------------------------------------------------
(* C37 *)

\* the listeners called during the last call, in the order of the calls
Handled == [i \in DOMAIN log |-> log[i].item[2]]

EmitCallsConnected ==
    lastOp'.op = "emit" =>
        /\ \A k \in Range(Connected) \cap Range(Connected') : HandledBy(k)' = 1
        /\ \A k \in Listeners : HandledBy(k)' <= 1
        /\ \A i, j \in DOMAIN Handled' :
              i < j => IndexOf(Connected, Handled'[i]) < IndexOf(Connected, Handled'[j])

\* C37: an emit calls once, in the order of the handlers, every handler that
\* is connected when the emit starts and is still connected when it ends,
\* also when a handler disconnects itself or another handler during the emit.
C37_EmitSkipsNoHandler == [][EmitCallsConnected]_vars

----------------------------------------------------------------------------
(* C34 *)

\* what the predicate of a query that builder b builds gives for entity e
BuiltMatches(b, e) == hasAll(W, e, builders[b].components, builders[b].tags)

\* a builder that was passed nothing builds a query that matches every
\* entity; x passed to contains makes the built query match the entities it
\* matched before that have x, and x passed again changes nothing
ContainsIsAnd ==
    /\ (builders[2].components = {} /\ builders[2].tags = {}) =>
          BuiltMatches(2, Entity1)
    /\ lastOp'.op = "contains" =>
          /\ lastOp'.fault = "none"
          /\ BuiltMatches(2, Entity1)' <=>
                (BuiltMatches(2, Entity1) /\ Entity_has(W, Entity1, lastOp'.x))
          /\ (lastOp.op = "contains" /\ lastOp.x = lastOp'.x) => builders' = builders

\* C34: a query built by a QueryBuilder matches an entity exactly when the
\* entity has every component type and every tag passed to contains, and
\* passing a type or tag again is the same as passing it once.
C34_BuilderIsConjunction == [][ContainsIsAnd]_vars

\* a tag was passed after a class; the entity has the class and not the tag
C34_Witness ==
    /\ lastOp.op = "contains" /\ lastOp.x = TagT
    /\ builders[2].components # {} /\ TagT \in builders[2].tags
    /\ Entity_has(W, Entity1, ClassToken("A")) /\ ~Entity_has(W, Entity1, TagT)
    /\ ~BuiltMatches(2, Entity1)

----------------------------------------------------------------------------
(* C40 *)

BuiltIsFixed ==
    (lastOp'.op = "contains" /\ queries[2].predicate = BuiltPredicate(2)) =>
        (Query_predicate(W, 2, Entity1)' <=> Query_predicate(W, 2, Entity1))

\* C40: contains() called on a builder after build() does not change which
\* entities the query built before matches.
C40_BuiltPredicateFixed == [][BuiltIsFixed]_vars

----------------------------------------------------------------------------
(* C38 *)

\* the ids that the linked classes have
LinkedIds == {getComponentId(W, class) : class \in LinkedClasses} \ {0}

\* entity e has neither slot nor list for id, or a list that is not empty
\* and whose head the slot holds
SlotIsHead(e, id) ==
    IF entities[e].linkedComponents[id] = NoList
    THEN entities[e].components[id] = None
    ELSE /\ entities[e].linkedComponents[id] # None
         /\ entities[e].components[id] = entities[e].linkedComponents[id]

\* C38: for every entity and linked type the component slot holds the head
\* of the chain whenever the chain is not empty, and slot and chain are both
\* absent when it is empty: removing the head promotes the next component,
\* removing the last one deletes the slot.
C38_SlotIsChainHead == \A e \in EntityRefs, id \in LinkedIds : SlotIsHead(e, id)

----------------------------------------------------------------------------
(* C39 *)

\* add(x) puts x in the place of another instance of A on an entity of the
\* engine that query 2 holds
Replaces ==
    /\ lastOp'.op = "add" /\ ClassOf(lastOp'.x) = "A"
    /\ lastOp'.e \in engine.entityMap
    /\ Query_has(W, 2, lastOp'.e)
    /\ Entity_get(W, lastOp'.e, "A") \notin {None, lastOp'.x}

ReplaceRequeues ==
    Replaces =>
        /\ lastOp'.fault = "none"
        /\ Len(seen') = 2
        /\ seen'[1].kind = "removed" /\ seen'[1].entity = lastOp'.e
        /\ seen'[2].kind = "added" /\ seen'[2].entity = lastOp'.e
        /\ queries'[2].entities = Without(queries[2].entities, lastOp'.e) \o <<lastOp'.e>>

\* C39: add(newInstance) that replaces the component of type A of an entity
\* of the engine held by a query requiring A makes the query fire "entity
\* removed" and then "entity added" for the entity and moves the entity to
\* the end of the query's entities.
C39_ReplaceRemovesThenAdds == [][ReplaceRequeues]_vars

\* the first of two entities of the query had its A replaced and is now last
C39_Witness ==
    /\ lastOp.op = "add" /\ lastOp.fault = "none" /\ lastOp.e = Entity1
    /\ Len(seen) = 2 /\ seen[1].kind = "removed" /\ seen[2].kind = "added"
    /\ seen[1].entity = Entity1 /\ seen[2].entity = Entity1
    /\ seen[2].current.components[getComponentId(W, "A")] = lastOp.x
    /\ queries[2].entities = <<Entity2, Entity1>>

----------------------------------------------------------------------------
(* C35 *)

\* query q holds exactly the entities of the engine that its predicate accepts
MembershipIsPredicate(q) ==
    \A e \in EntityRefs :
        Query_has(W, q, e) <=> (e \in engine.entityMap /\ Query_predicate(W, q, e))

\* C35: when a call during which the listener of a query added or removed a
\* component of an entity of the engine has returned, every query of the
\* engine holds exactly the entities of the engine that satisfy its predicate.
C35_ReentrantMembership ==
    (lastOp.fault = "none" /\ lastOp.r \in {"add", "remove"}) =>
        \A q \in Range(engine.queries) : MembershipIsPredicate(q)

----------------------------------------------------------------------------
(* C36 *)

\* C36: every entity that a query of the engine holds is an entity of the
\* engine or the shared config, whatever the listeners of the query did
\* while they were notified.
C36_QueriesHoldEngineEntities ==
    \A q \in Range(engine.queries) :
        \A e \in Range(queries[q].entities) : e \in engine.entityMap \/ e = SharedConfig

====
